---- MODULE Spec2Model ----
(***************************************************************************)
(* Model of the Preset snapshot fetcher (scripts/fetchPresetData.mjs) and  *)
(* of the viewer's data loader (utils/fetchData.ts).                       *)
(*                                                                         *)
(*   Spec       one run of the fetcher: credential check, credential       *)
(*              exchange, users/roles/teams/membership/audit requests,     *)
(*              output files, exit status.                                 *)
(*   SpecTeams  a run with PRESET_BEARER set, against a server with more   *)
(*              shapes of teams, memberships and audit logs.               *)
(*   SpecProbe  one call of tryEndpoints, in either mode, against          *)
(*              scripted candidate endpoints.                              *)
(*   SpecLoad   one call of fetchDataFile, and the page that made it,      *)
(*              against an arbitrary server.                               *)
(*   SpecSearch    one call of search (utils/search.ts) on a record.       *)
(*   SpecAnalytics the Analytics page: option list, filter and series      *)
(*              derived from the audit logs and the controls.              *)
(*   SpecWalk   the "All Fields" rows of an expanded audit-log row.        *)
(*   SpecShape  the array taken from a teams or membership response body.  *)
(*   SpecRefresh  a page, the Refresh button and the loads it starts.      *)
(***************************************************************************)
EXTENDS Integers, Sequences, FiniteSets, TLC

(***************************************************************************)
(* JavaScript values                                                       *)
(***************************************************************************)

\* null, undefined and the empty string of a credential or header: all falsy
Null == ""

Truthy(s) == s # Null

\* a JSON scalar that is a number, a string, or missing
Undef == [t |-> "undef", n |-> 0, s |-> ""]

Num(n) == [t |-> "num", n |-> n, s |-> ""]

Str(s) == [t |-> "str", n |-> 0, s |-> s]

\* JavaScript truthiness of a scalar: 0, "" and undefined are falsy
JsTruthy(v) == CASE v.t = "num" -> v.n # 0
                 [] v.t = "str" -> v.s # ""
                 [] OTHER -> FALSE

\* a || b
JsOr(a, b) == IF JsTruthy(a) THEN a ELSE b

\* a ?? b
JsNullish(a, b) == IF a.t = "undef" THEN b ELSE a

\* the decimal digits of the small numbers the model uses
NumStr(n) == CASE n = 0 -> "0" [] n = 1 -> "1" [] n = 2 -> "2" [] n = 3 -> "3"
               [] n = 4 -> "4" [] n = 5 -> "5" [] n = 6 -> "6" [] n = 7 -> "7"
               [] n = 8 -> "8" [] OTHER -> "9"

\* String(v)
JsString(v) == IF v.t = "num" THEN Str(NumStr(v.n)) ELSE v

\* [...new Set(seq)]: the first occurrence of each element, in order
RECURSIVE Dedupe(_)
Dedupe(seq) ==
    IF seq = <<>> THEN <<>>
    ELSE LET init == Dedupe(SubSeq(seq, 1, Len(seq) - 1))
             last == seq[Len(seq)]
         IN  IF \E i \in 1..Len(init) : init[i] = last THEN init
             ELSE Append(init, last)

\* [1, 2, ..., n]: an array of n distinct items
Items(n) == [i \in 1..n |-> i]

(***************************************************************************)
(* The credential exchange: responses of /v1/auth/                         *)
(***************************************************************************)

NoAuthBody ==
    [kind |-> "object", jwt |-> Null, access_token |-> Null, token |-> Null,
     id_token |-> Null, payload_access_token |-> Null, payload_token |-> Null,
     data_jwt |-> Null, data_access_token |-> Null, result_jwt |-> Null,
     result_token |-> Null]

\* the bodies the auth endpoint may answer: no token, a token in one of the
\* places extractJWT reads, two tokens, JSON null, and a body that is not JSON
AuthBodies ==
    { NoAuthBody,
      [NoAuthBody EXCEPT !.jwt = "jwtA"],
      [NoAuthBody EXCEPT !.result_token = "jwtA"],
      [NoAuthBody EXCEPT !.access_token = "jwtA", !.data_jwt = "jwtD"],
      [NoAuthBody EXCEPT !.kind = "null"],
      [NoAuthBody EXCEPT !.kind = "invalid"] }

\* an Authorization response header, as its whitespace-separated words
AuthHeaders == { <<>>, <<"BEARER", "jwtA">>, <<"Basic", "zzz">> }

\* a Set-Cookie header (several are comma-joined by headers.get): a sequence
\* of cookies, each the sequence of its ";"-separated parts
SetCookies ==
    { <<>>,
      << <<"sid=1", " Path=/">>, <<"b=2", " Secure">> >>,
      << <<"", "x">> >> }

AuthStatuses == {200, 400, 401, 500}

NetError == [kind |-> "neterr", status |-> 0, body |-> NoAuthBody,
             authorization |-> <<>>, xAccessToken |-> Null, setCookie |-> <<>>]

AuthResponses ==
    {NetError} \cup
    [kind : {"http"}, status : AuthStatuses \ {200}, body : {NoAuthBody},
     authorization : {<<>>}, xAccessToken : {Null}, setCookie : {<<>>}] \cup
    [kind : {"http"}, status : {200}, body : AuthBodies,
     authorization : AuthHeaders, xAccessToken : {Null, "jwtA"},
     setCookie : SetCookies]

\* res.ok
Ok(res) == res.kind = "http" /\ res.status >= 200 /\ res.status <= 299

LowerCase(w) == CASE w = "Bearer" -> "bearer" [] w = "BEARER" -> "bearer"
                  [] w = "Basic" -> "basic" [] OTHER -> w

\* the first truthy element of a sequence of strings, Null if none
RECURSIVE FirstTruthy(_)
FirstTruthy(seq) ==
    IF seq = <<>> THEN Null
    ELSE IF Truthy(Head(seq)) THEN Head(seq) ELSE FirstTruthy(Tail(seq))

extractJWT(json, res) ==
    IF json.kind = "null" THEN Null
    ELSE LET candidates == << json.jwt, json.access_token, json.token, json.id_token,
                              json.payload_access_token, json.payload_token,
                              json.data_jwt, json.data_access_token,
                              json.result_jwt, json.result_token >>
             auth == res.authorization
         IN  IF Truthy(FirstTruthy(candidates)) THEN FirstTruthy(candidates)
             ELSE IF Len(auth) >= 2 /\ LowerCase(auth[1]) = "bearer" THEN auth[Len(auth)]
             ELSE res.xAccessToken

\* whether the comma before cookie k matches /,(?=[^;]+;)/
SplitsBefore(sc, k) ==
    /\ k > 1
    /\ sc[k][1] # ""
    /\ \E j \in k..Len(sc) : Len(sc[j]) >= 2

\* s.split(';')[0] of the piece that starts at cookie k
RECURSIVE FirstPart(_, _)
FirstPart(sc, k) ==
    IF Len(sc[k]) >= 2 \/ k = Len(sc) \/ SplitsBefore(sc, k + 1) THEN sc[k][1]
    ELSE sc[k][1] \o "," \o FirstPart(sc, k + 1)

RECURSIVE JoinFrom(_, _)
JoinFrom(sc, k) ==
    IF k > Len(sc) THEN ""
    ELSE IF k = 1 THEN FirstPart(sc, 1) \o JoinFrom(sc, 2)
    ELSE IF SplitsBefore(sc, k) THEN "; " \o FirstPart(sc, k) \o JoinFrom(sc, k + 1)
    ELSE JoinFrom(sc, k + 1)

\* setCookie.split(/,(?=[^;]+;)/).map(s => s.split(';')[0]).join('; ')
ParseCookie(sc) == JoinFrom(sc, 1)

\* the new sessionCookie after `if (setCookie) sessionCookie = ...`
CapturedCookie(res, old) == IF res.setCookie # <<>> THEN ParseCookie(res.setCookie) ELSE old

(***************************************************************************)
(* JSON bodies of the resource endpoints                                   *)
(***************************************************************************)

\* the value of a top-level key: an array (a), an object (d holds its `data`
\* array, if it has one), another truthy scalar, or nothing
ArrV(a) == [t |-> "arr", a |-> a, d |-> <<>>]

ObjV(d) == [t |-> "obj", a |-> <<>>, d |-> d]

ScalarV == [t |-> "other", a |-> <<>>, d |-> <<>>]

MissingV == [t |-> "undef", a |-> <<>>, d |-> <<>>]

Pair(k, v) == [k |-> k, v |-> v]

\* a body that is an array, an object (its keys in order), JSON null, or not JSON
BareBody(a) == [kind |-> "array", arr |-> a, pairs |-> <<>>]

ObjBody(pairs) == [kind |-> "object", arr |-> <<>>, pairs |-> pairs]

NullBody == [kind |-> "null", arr |-> <<>>, pairs |-> <<>>]

InvalidBody == [kind |-> "invalid", arr |-> <<>>, pairs |-> <<>>]

\* json?.[key]
Field(json, key) ==
    IF json.kind = "object" /\ \E i \in 1..Len(json.pairs) : json.pairs[i].k = key
    THEN json.pairs[CHOOSE i \in 1..Len(json.pairs) :
                      /\ json.pairs[i].k = key
                      /\ \A j \in 1..(i - 1) : json.pairs[j].k # key].v
    ELSE MissingV

\* Array.isArray(json?.[key])
IsArrayAt(json, key) == Field(json, key).t = "arr"

\* Array.isArray(json?.[key]?.data)
IsArrayAtData(json, key) == Field(json, key).t = "obj" /\ Field(json, key).d # <<>>

\* a response of a resource endpoint; api() yields no response at all when the
\* request is skipped or the network fails
NoResponse == [kind |-> "none", status |-> 0, json |-> NullBody]

Http(status, json) == [kind |-> "http", status |-> status, json |-> json]

FailStatuses == {404, 500}

(***************************************************************************)
(* tryEndpoints                                                            *)
(***************************************************************************)

DefaultPageSize == 100

PageCap == 50

\* the items the paginated branch reads from a page: result, data, bare array
PagedItems(json) ==
    IF IsArrayAt(json, "result") THEN Field(json, "result").a
    ELSE IF IsArrayAt(json, "data") THEN Field(json, "data").a
    ELSE IF json.kind = "array" THEN json.arr
    ELSE <<>>

\* the items the single-request branch reads: data, result, bare array
SingleItems(json) ==
    IF IsArrayAt(json, "data") THEN Field(json, "data").a
    ELSE IF IsArrayAt(json, "result") THEN Field(json, "result").a
    ELSE IF json.kind = "array" THEN json.arr
    ELSE <<>>

\* json?.result is truthy
HasResult(json) == Field(json, "result").t # "undef"

\* variant: a short page does not end the loop
StopsPagingIgnoresShort(json, items, page, pageSize) ==
    \/ ~HasResult(json)
    \/ page > PageCap

\* the pagination loop stops after a page that was accepted
StopsPaging(json, items, page, pageSize) ==
    \/ ~HasResult(json)
    \/ Len(items) < pageSize
    \/ page > PageCap

\* the state of one tryEndpoints call: the candidate being tried, the pages
\* requested from it, the items gathered from it, and the returned array
TryStart == [idx |-> 1, page |-> 0, out |-> <<>>, done |-> FALSE, result |-> <<>>]

\* the catch block and the for loop: on to the next candidate, or return []
TryNextCandidate(st, n) ==
    IF st.idx < n
    THEN [idx |-> st.idx + 1, page |-> 0, out |-> <<>>, done |-> FALSE, result |-> <<>>]
    ELSE [idx |-> st.idx, page |-> st.page, out |-> <<>>, done |-> TRUE, result |-> <<>>]

TryReturn(st, items) ==
    [idx |-> st.idx, page |-> st.page, out |-> <<>>, done |-> TRUE, result |-> items]

\* variant: the paginated branch never returns what it gathered
TryAfterPagesNoReturn(st, n, out) == TryNextCandidate(st, n)

\* after the while loop of the paginated branch
TryAfterPages(st, n, out) ==
    IF out # <<>> THEN TryReturn(st, out) ELSE TryNextCandidate(st, n)

\* one request of the paginated branch and what the loop does with its response
TryPagedStep(st, n, pageSize, res) ==
    LET page  == st.page + 1
        at    == [st EXCEPT !.page = page]
        items == PagedItems(res.json)
    IN  IF res.kind # "http" THEN TryNextCandidate(at, n)
        ELSE IF res.status = 404 THEN TryAfterPages(at, n, st.out)
        ELSE IF ~Ok(res) THEN TryNextCandidate(at, n)
        ELSE IF res.json.kind = "invalid" THEN TryNextCandidate(at, n)
        ELSE IF items = <<>>
             THEN IF page = 1 THEN TryNextCandidate(at, n)
                  ELSE TryAfterPages(at, n, st.out)
        ELSE IF StopsPaging(res.json, items, page, pageSize)
             THEN TryAfterPages(at, n, st.out \o items)
        ELSE [at EXCEPT !.out = st.out \o items]

\* the one request of the single-request branch
TrySingleStep(st, n, res) ==
    LET at    == [st EXCEPT !.page = 1]
        items == SingleItems(res.json)
    IN  IF res.kind # "http" THEN TryNextCandidate(at, n)
        ELSE IF res.status = 404 THEN TryNextCandidate(at, n)
        ELSE IF ~Ok(res) THEN TryNextCandidate(at, n)
        ELSE IF res.json.kind = "invalid" THEN TryNextCandidate(at, n)
        ELSE IF items = <<>> THEN TryNextCandidate(at, n)
        ELSE TryReturn(at, items)

\* tryEndpoints, one api() call at a time, over n candidates
TryStep(st, n, paginated, pageSize, res) ==
    IF paginated THEN TryPagedStep(st, n, pageSize, res)
    ELSE TrySingleStep(st, n, res)

(***************************************************************************)
(* Teams, memberships and audit logs: records and response shapes          *)
(***************************************************************************)

NoTeam == [id |-> Undef, team_id |-> Undef, name |-> Undef, slug |-> Undef,
           title |-> Undef, uuid |-> Undef]

\* the team lists the teams endpoint may hold: a team with a numeric id, a name
\* and a uuid; a team known by its name only; a team whose name is its id's
\* digits; a record with no identifier at all
TeamOps == [NoTeam EXCEPT !.id = Num(7), !.name = Str("ops"), !.uuid = Str("u-7")]

TeamBi == [NoTeam EXCEPT !.slug = Str("bi")]

TeamSeven == [NoTeam EXCEPT !.team_id = Num(7), !.title = Str("7")]

\* a team known by its uuid only
TeamUuid == [NoTeam EXCEPT !.uuid = Str("u-9")]

TeamLists == { <<>>, <<TeamOps>>, <<NoTeam, TeamSeven, TeamBi>>, <<TeamUuid>> }

NoUser == [present |-> FALSE, id |-> Undef, email |-> Undef, first_name |-> Undef,
           last_name |-> Undef, username |-> Undef]

NoMember == [nul |-> FALSE, id |-> Undef, user_id |-> Undef, email |-> Undef,
             first_name |-> Undef, last_name |-> Undef, username |-> Undef,
             user |-> NoUser, team_role |-> Undef, team_role_name |-> Undef,
             _team_id |-> Undef, _team_identifier_used |-> Undef]

\* a membership with an embedded user and role; one with its fields at the top
\* level; a null element
MemberNested ==
    [NoMember EXCEPT !.id = Num(1), !.team_role = Str("Admin"),
                     !.user = [NoUser EXCEPT !.present = TRUE, !.id = Num(5),
                                             !.email = Str("a@x")]]

MemberFlat ==
    [NoMember EXCEPT !.user_id = Num(6), !.email = Str("b@x"),
                     !.team_role_name = Str("Viewer")]

MemberNull == [NoMember EXCEPT !.nul = TRUE]

\* a membership that arrives with provenance fields of its own
MemberTagged ==
    [MemberFlat EXCEPT !.id = Num(2), !._team_id = Str("raw"),
                       !._team_identifier_used = Str("raw")]

MemberArrays == { <<>>, <<MemberNested>>, <<MemberFlat, MemberNested>>,
                  <<MemberNested, MemberNull>>, <<MemberTagged>> }

NoLog == [nul |-> FALSE, id |-> Undef, _team_id |-> Undef, _team_identifier_used |-> Undef]

LogOne == [NoLog EXCEPT !.id = Num(1)]

LogNull == [NoLog EXCEPT !.nul = TRUE]

LogArrays == { <<>>, <<LogOne, LogNull>> }

\* the arrays a server holds: its team lists, membership lists and audit logs
BasicServer == [teamLists |-> { <<>>, <<TeamOps>>, <<NoTeam, TeamBi>> },
                memberArrays |-> { <<>>, <<MemberNested>> },
                logArrays |-> { <<>>, <<LogOne>> }]

RichServer == [teamLists |-> TeamLists, memberArrays |-> MemberArrays,
               logArrays |-> LogArrays]

\* the envelopes a server may put an array in
Under(key, a) == ObjBody(<<Pair(key, ArrV(a))>>)

UnderPayloadData(a) == ObjBody(<<Pair("payload", ObjV(<<a>>))>>)

UnderUnknown(a) == ObjBody(<<Pair("message", ScalarV), Pair("items", ArrV(a))>>)

EmptyDataThenResult(a) == ObjBody(<<Pair("data", ArrV(<<>>)), Pair("result", ArrV(a))>>)

\* bodies that hold no array: an unrelated object, JSON null, not JSON
NoArrayBodies == { ObjBody(<<Pair("message", ScalarV)>>), NullBody, InvalidBody }

\* no response, a failing status, or 200 with one of the bodies
ResponsesOver(bodies) ==
    {NoResponse} \cup { Http(s, NullBody) : s \in FailStatuses }
    \cup { Http(200, b) : b \in NoArrayBodies \cup bodies }

TeamsResponses(lists) ==
    ResponsesOver(UNION { { BareBody(a), Under("data", a), Under("result", a),
                            UnderPayloadData(a), Under("team_list", a), UnderUnknown(a),
                            EmptyDataThenResult(a) } : a \in lists })

MemberResponses(arrays) ==
    ResponsesOver(UNION { { BareBody(a), Under("data", a), Under("result", a),
                            Under("payload", a), UnderPayloadData(a), UnderUnknown(a),
                            EmptyDataThenResult(a) } : a \in arrays })

AuditResponses(arrays) ==
    ResponsesOver(UNION { { BareBody(a), Under("data", a), Under("result", a),
                            Under("payload", a), Under("logs", a), UnderUnknown(a) }
                          : a \in arrays })

\* /team/i.test(k)
KeyNamesTeam(k) == k \in {"team_list"}

\* v.some(o => o && typeof o === 'object' && ('id' in o) && ('name' in o || 'slug' in o))
LooksLikeTeams(a) ==
    \E i \in 1..Len(a) : a[i].id.t # "undef" /\ (a[i].name.t # "undef" \/ a[i].slug.t # "undef")

\* v.some(o => o && typeof o === 'object' && ('user_id' in o || 'email' in o))
LooksLikeMembers(a) ==
    \E i \in 1..Len(a) : ~a[i].nul /\ (a[i].user_id.t # "undef" \/ a[i].email.t # "undef")

\* the first top-level value, in key order, that is an array and passes the
\* test: a non-empty array under a team key, an array of teams, of members
FirstArrayValue(json, test) ==
    LET ok(k, a) == CASE test = "team key" -> KeyNamesTeam(k) /\ a # <<>>
                      [] test = "teams" -> LooksLikeTeams(a)
                      [] OTHER -> LooksLikeMembers(a)
        hits == { i \in 1..Len(json.pairs) :
                    json.pairs[i].v.t = "arr" /\ ok(json.pairs[i].k, json.pairs[i].v.a) }
    IN  IF json.kind = "object" /\ hits # {}
        THEN json.pairs[CHOOSE i \in hits : \A j \in hits : i <= j].v.a
        ELSE <<>>

\* the teams array of the teams response
TeamsFrom(json) ==
    IF json.kind = "array" THEN json.arr
    ELSE IF IsArrayAt(json, "data") THEN Field(json, "data").a
    ELSE IF IsArrayAt(json, "result") THEN Field(json, "result").a
    ELSE IF IsArrayAtData(json, "payload") THEN Field(json, "payload").d[1]
    ELSE IF FirstArrayValue(json, "team key") # <<>> THEN FirstArrayValue(json, "team key")
    ELSE FirstArrayValue(json, "teams")

\* the member items of a membership response
MemberItems(json) ==
    LET known == IF json.kind = "array" THEN json.arr
                 ELSE IF IsArrayAt(json, "data") THEN Field(json, "data").a
                 ELSE IF IsArrayAt(json, "result") THEN Field(json, "result").a
                 ELSE IF IsArrayAt(json, "payload") THEN Field(json, "payload").a
                 ELSE IF IsArrayAtData(json, "payload") THEN Field(json, "payload").d[1]
                 ELSE <<>>
    IN  IF known # <<>> THEN known ELSE FirstArrayValue(json, "members")

\* the log items of an audit response
AuditItems(json) ==
    IF json.kind = "array" THEN json.arr
    ELSE IF IsArrayAt(json, "data") THEN Field(json, "data").a
    ELSE IF IsArrayAt(json, "result") THEN Field(json, "result").a
    ELSE IF IsArrayAt(json, "payload") THEN Field(json, "payload").a
    ELSE IF IsArrayAt(json, "logs") THEN Field(json, "logs").a
    ELSE <<>>

numericId(t) == JsOr(t.id, t.team_id)

nameId(t) == JsOr(JsOr(t.name, t.slug), t.title)

uuidId(t) == t.uuid

\* [nameId, numericId, uuidId].filter(v => v !== undefined && v !== null).map(String)
identifiers(t) ==
    LET all == <<nameId(t), numericId(t), uuidId(t)>>
        kept == { i \in 1..3 : all[i].t # "undef" }
        nth(k) == CHOOSE i \in kept : Cardinality({ j \in kept : j < i }) = k - 1
    IN  [k \in 1..Cardinality(kept) |-> JsString(all[nth(k)])]

uniqueIds(t) == Dedupe(identifiers(t))

\* the patterns of teamMembersFallbacks
NumPatterns == 6

\* variant: the fields of the raw membership are spread last and win
FlattenMemberRawWins(m, t, candidate) ==
    [m EXCEPT !._team_id = IF m._team_id.t # "undef" THEN m._team_id
                           ELSE JsNullish(numericId(t), nameId(t)),
              !._team_identifier_used = IF m._team_identifier_used.t # "undef"
                                        THEN m._team_identifier_used ELSE candidate,
              !.email = m.user.email,
              !.first_name = m.user.first_name,
              !.last_name = m.user.last_name,
              !.username = m.user.username,
              !.user_id = JsNullish(JsNullish(m.user.id, m.user_id), m.id),
              !.team_role_name = m.team_role]

\* the record pushed to teamMembers for the raw membership m
FlattenMember(m, t, candidate) ==
    [m EXCEPT !._team_id = JsNullish(numericId(t), nameId(t)),
              !._team_identifier_used = candidate,
              !.email = m.user.email,
              !.first_name = m.user.first_name,
              !.last_name = m.user.last_name,
              !.username = m.user.username,
              !.user_id = JsNullish(JsNullish(m.user.id, m.user_id), m.id),
              !.team_role_name = m.team_role]

\* items.forEach(m => teamMembers.push(...)): the records pushed before the
\* first null element, on which the callback throws
RECURSIVE PushMembers(_, _, _)
PushMembers(items, t, candidate) ==
    IF items = <<>> \/ Head(items).nul THEN <<>>
    ELSE <<FlattenMember(Head(items), t, candidate)>> \o PushMembers(Tail(items), t, candidate)

MemberPushThrows(items) == \E i \in 1..Len(items) : items[i].nul

\* { ...l, _team_id, _team_identifier_used }
TagLog(l, t, candidate) ==
    [l EXCEPT !.nul = FALSE, !._team_id = JsNullish(numericId(t), nameId(t)),
              !._team_identifier_used = candidate]

PushLogs(items, t, candidate) == [i \in 1..Len(items) |-> TagLog(items[i], t, candidate)]

\* metaWrap: the count and the number of sample identifiers
metaWrap(arr) == [count |-> Len(arr), samples |-> IF Len(arr) < 3 THEN Len(arr) ELSE 3]

(***************************************************************************)
(* The fetcher run                                                         *)
(***************************************************************************)

\* how many arrays with a null element the membership server serves in a run
MaxNullBodies == 1

VARIABLES
    env,            \* the environment variables the run reads
    server,         \* the arrays the API server holds
    pc,             \* where main() is: start, users, roles, teams, members, audit, write, done, exit
    ap,             \* where the current api() call is: enter, post2, basic, fetch, skip
    cachedJWT, attemptedAuth, sessionCookie,
    jwt,            \* what obtainJWT returned to the current api() call
    te,             \* the tryEndpoints call in progress
    users, roles, teams, teamMembers, auditLogsAll,
    ti, ci, pi,     \* the team, the identifier and the pattern being tried
    files, summary, \* the arrays written to <resource>.json, and summary.json
    exitCode,       \* -1 while running
    authLog,        \* the requests sent to the auth endpoint, in order
    lastReq,        \* the credential headers of the last resource request
    reqAfterFail,   \* a request was sent after the exchange had failed
    nulls,          \* the arrays with a null element served so far
    last,           \* the candidate last requested and how its response was judged
    pr,             \* SpecProbe: one tryEndpoints call
    ld,             \* SpecLoad: one fetchDataFile call
    vw              \* the viewer: one evaluation of a page's derived data

fetchVars == <<env, server, pc, ap, cachedJWT, attemptedAuth, sessionCookie, jwt, te, users,
               roles, teams, teamMembers, auditLogsAll, ti, ci, pi, files, summary,
               exitCode, authLog, lastReq, reqAfterFail, nulls, last>>

vars == <<fetchVars, pr, ld, vw>>

Envs == [token : {Null, "tok"}, secret : {Null, "sec"}, presetBearer : {Null, "envjwt"},
         fetchUsers : BOOLEAN, fetchRoles : BOOLEAN]

NoFiles == [f \in {} |-> <<>>]

NoRequest == [sent |-> FALSE, authorization |-> Null, cookie |-> Null]

NoLast == [stage |-> "none", team |-> 0, cand |-> 0, failed |-> FALSE, more |-> FALSE,
           ok |-> FALSE]

ProbeIdle == [mode |-> "idle"]

LoadIdle == [mode |-> "idle"]

ViewIdle == [mode |-> "idle"]

FetchInit(envs, srv) ==
    /\ env \in envs
    /\ server = srv
    /\ pc = "start"
    /\ ap = "enter"
    /\ cachedJWT = Null
    /\ attemptedAuth = FALSE
    /\ sessionCookie = Null
    /\ jwt = Null
    /\ te = TryStart
    /\ users = <<>>
    /\ roles = <<>>
    /\ teams = <<>>
    /\ teamMembers = <<>>
    /\ auditLogsAll = <<>>
    /\ ti = 0
    /\ ci = 0
    /\ pi = 0
    /\ files = NoFiles
    /\ summary = NoFiles
    /\ exitCode = -1
    /\ authLog = <<>>
    /\ lastReq = NoRequest
    /\ reqAfterFail = FALSE
    /\ nulls = 0
    /\ last = NoLast

FetchIdle ==
    /\ env = [token |-> Null, secret |-> Null, presetBearer |-> Null,
              fetchUsers |-> FALSE, fetchRoles |-> FALSE]
    /\ server = BasicServer
    /\ pc = "idle"
    /\ ap = "enter"
    /\ cachedJWT = Null
    /\ attemptedAuth = FALSE
    /\ sessionCookie = Null
    /\ jwt = Null
    /\ te = TryStart
    /\ users = <<>>
    /\ roles = <<>>
    /\ teams = <<>>
    /\ teamMembers = <<>>
    /\ auditLogsAll = <<>>
    /\ ti = 0
    /\ ci = 0
    /\ pi = 0
    /\ files = NoFiles
    /\ summary = NoFiles
    /\ exitCode = -1
    /\ authLog = <<>>
    /\ lastReq = NoRequest
    /\ reqAfterFail = FALSE
    /\ nulls = 0
    /\ last = NoLast

Init == FetchInit(Envs, BasicServer) /\ pr = ProbeIdle /\ ld = LoadIdle /\ vw = ViewIdle

\* the stages of main() that call api()
ApiStages == {"users", "roles", "teams", "members", "audit"}

AfterUsers == IF env.fetchRoles THEN "roles" ELSE "teams"

AfterStart == IF env.fetchUsers THEN "users" ELSE AfterUsers

\* variant: the check is waived when a bearer token is supplied
MissingCredentialsUnlessBearer ==
    (~Truthy(env.token) \/ ~Truthy(env.secret)) /\ ~Truthy(env.presetBearer)

\* if (!token || !secret) process.exit(1), else main() starts
MissingCredentials == ~Truthy(env.token) \/ ~Truthy(env.secret)

CheckCredentials ==
    /\ pc = "start"
    /\ IF MissingCredentials
       THEN pc' = "exit" /\ exitCode' = 1
       ELSE pc' = AfterStart /\ exitCode' = exitCode
    /\ UNCHANGED <<env, server, ap, cachedJWT, attemptedAuth, sessionCookie, jwt, te, users, roles,
                   teams, teamMembers, auditLogsAll, ti, ci, pi, files, summary, authLog,
                   lastReq, reqAfterFail, nulls, last, pr, ld, vw>>

(***************************************************************************)
(* obtainJWT                                                               *)
(***************************************************************************)

\* the exchange ran and left neither a token nor a cookie
AuthFailed ==
    /\ attemptedAuth
    /\ ap \notin {"post2", "basic"}
    /\ ~Truthy(env.presetBearer)
    /\ ~Truthy(cachedJWT)
    /\ ~Truthy(sessionCookie)

\* variant: obtainJWT without the attemptedAuth memo
ObtainReturnsEarlyNoMemo == Truthy(env.presetBearer) \/ Truthy(cachedJWT)

\* obtainJWT returns before `attemptedAuth = true`
ObtainReturnsEarly == Truthy(env.presetBearer) \/ Truthy(cachedJWT) \/ attemptedAuth

\* what obtainJWT yields when it returns early: a token, null with a cookie
\* held, or the 'Auth previously failed' error
ObtainEarly ==
    IF Truthy(env.presetBearer) THEN [jwt |-> env.presetBearer, throws |-> FALSE]
    ELSE IF Truthy(cachedJWT) THEN [jwt |-> cachedJWT, throws |-> FALSE]
    ELSE IF Truthy(sessionCookie) THEN [jwt |-> Null, throws |-> FALSE]
    ELSE [jwt |-> Null, throws |-> TRUE]

\* a request to the auth endpoint is recorded: its kind, whether a token or a
\* cookie was held when it was sent, and whether the answer was HTTP 400
AuthRequest(kind, res) ==
    /\ authLog' = Append(authLog, [req |-> kind,
                                   held |-> Truthy(cachedJWT) \/ Truthy(sessionCookie),
                                   s400 |-> res.kind = "http" /\ res.status = 400])
    /\ reqAfterFail' = (reqAfterFail \/ AuthFailed)

\* variant: the POST is retried on every non-2xx status
NeedsLegacyRetryAnyError(res) == res.kind = "http" /\ ~Ok(res)

\* if (res.status === 400): the POST is retried with the legacy field names
NeedsLegacyRetry(res) == res.kind = "http" /\ res.status = 400

\* the POST exchange is over without a token or a cookie: on to Basic
ToBasic ==
    /\ ap' = "basic"
    /\ UNCHANGED <<cachedJWT, sessionCookie, jwt>>

\* lines 47-60: what obtainJWT does with the response of its last POST
AfterPost(res) ==
    IF Ok(res) /\ res.body.kind # "invalid"
    THEN LET jwtExtracted == extractJWT(res.body, res)
             cookie == CapturedCookie(res, sessionCookie)
         IN  /\ sessionCookie' = cookie
             /\ IF Truthy(jwtExtracted)
                THEN cachedJWT' = jwtExtracted /\ jwt' = jwtExtracted /\ ap' = "fetch"
                ELSE IF Truthy(cookie)
                THEN cachedJWT' = cachedJWT /\ jwt' = Null /\ ap' = "fetch"
                ELSE cachedJWT' = cachedJWT /\ jwt' = jwt /\ ap' = "basic"
    ELSE ToBasic

\* lines 65-85: what obtainJWT does with the response of the Basic request
AfterBasic(res) ==
    LET parsed == Ok(res) /\ res.body.kind # "invalid"
        jwtExtracted == IF parsed THEN extractJWT(res.body, res) ELSE Null
        cookie == IF parsed THEN CapturedCookie(res, sessionCookie) ELSE sessionCookie
    IN  /\ sessionCookie' = cookie
        /\ cachedJWT' = IF Truthy(jwtExtracted) THEN jwtExtracted ELSE cachedJWT
        /\ jwt' = jwtExtracted
        /\ ap' = IF Truthy(jwtExtracted) \/ Truthy(cookie) THEN "fetch" ELSE "skip"

ExchangeFrame ==
    UNCHANGED <<env, server, pc, te, users, roles, teams, teamMembers, auditLogsAll, ti, ci, pi,
                files, summary, exitCode, lastReq, nulls, last, pr, ld, vw>>

\* the first JSON POST, with name and secret
AuthPostPrimary ==
    /\ pc \in ApiStages
    /\ ap = "enter"
    /\ ~ObtainReturnsEarly
    /\ attemptedAuth' = TRUE
    /\ \E res \in AuthResponses :
          /\ AuthRequest("POST name/secret", res)
          /\ IF NeedsLegacyRetry(res)
             THEN ap' = "post2" /\ UNCHANGED <<cachedJWT, sessionCookie, jwt>>
             ELSE AfterPost(res)
    /\ ExchangeFrame

\* the retry with api_token and api_secret
AuthPostLegacy ==
    /\ ap = "post2"
    /\ \E res \in AuthResponses :
          /\ AuthRequest("POST api_token/api_secret", [res EXCEPT !.status = 0])
          /\ AfterPost(res)
    /\ UNCHANGED attemptedAuth
    /\ ExchangeFrame

\* the request with HTTP Basic credentials
AuthBasicGet ==
    /\ ap = "basic"
    /\ \E res \in AuthResponses :
          /\ AuthRequest("GET basic", [res EXCEPT !.status = 0])
          /\ AfterBasic(res)
    /\ UNCHANGED attemptedAuth
    /\ ExchangeFrame

(***************************************************************************)
(* api                                                                     *)
(***************************************************************************)

\* api() can go on: obtainJWT has returned or thrown, or will do so at once
ApiReady == ap \in {"fetch", "skip"} \/ (ap = "enter" /\ ObtainReturnsEarly)

\* the token obtainJWT hands to api()
ApiJwt == IF ap = "enter" THEN ObtainEarly.jwt ELSE jwt

\* variant: api() goes on to fetch although obtainJWT threw
ApiSkippedNever == FALSE

\* obtainJWT threw: api() returns undefined without a request
ApiSkipped == IF ap = "enter" THEN ObtainEarly.throws ELSE ap = "skip"

\* variant: the cookie is attached whenever one is held
ApiHeadersWithCookie ==
    [sent |-> TRUE, authorization |-> ApiJwt, cookie |-> sessionCookie]

\* the credential headers api() puts on its request
ApiHeaders ==
    [sent |-> TRUE,
     authorization |-> ApiJwt,
     cookie |-> IF Truthy(ApiJwt) THEN Null ELSE sessionCookie]

\* one api() call that yields res (NoResponse: skipped, or a network error)
Api(res) ==
    /\ ApiReady
    /\ ApiSkipped => res = NoResponse
    /\ cachedJWT' = IF ap = "enter" /\ Truthy(env.presetBearer) THEN env.presetBearer
                    ELSE cachedJWT
    /\ IF ApiSkipped
       THEN UNCHANGED <<lastReq, reqAfterFail>>
       ELSE lastReq' = ApiHeaders /\ reqAfterFail' = (reqAfterFail \/ AuthFailed)
    /\ ap' = "enter"
    /\ jwt' = Null
    /\ UNCHANGED <<attemptedAuth, sessionCookie, authLog>>

\* the response has a 2xx status and a body that parses as JSON
Answered(res) == res.kind = "http" /\ Ok(res) /\ res.json.kind # "invalid"

\* a response that does not give the resource: no response, a non-2xx status,
\* a body that is not JSON, or no recognizable non-empty array
RespFails(res, items) ==
    \/ res.kind # "http"
    \/ ~Ok(res)
    \/ res.json.kind = "invalid"
    \/ items = <<>>

(***************************************************************************)
(* main: users and roles                                                   *)
(***************************************************************************)

\* ['/api/v1/user/', '/api/v1/users', '/v1/users'] and the like for roles
NumLegacyCandidates == 3

\* the users and roles servers hold no more than one record
LegacyResponses ==
    ResponsesOver(UNION { { BareBody(a), Under("data", a), Under("result", a), UnderUnknown(a) }
                          : a \in { Items(0), Items(1) } })

LegacyStep(label) ==
    /\ pc = label
    /\ \E res \in LegacyResponses :
          LET st == TryStep(te, NumLegacyCandidates, TRUE, DefaultPageSize, res)
          IN  /\ Api(res)
              /\ last' = [stage |-> label, team |-> 0, cand |-> te.idx,
                          failed |-> te.page = 0 /\ RespFails(res, PagedItems(res.json)),
                          more |-> te.idx < NumLegacyCandidates,
                          ok |-> Answered(res)]
              /\ IF st.done
                 THEN /\ te' = TryStart
                      /\ users' = IF label = "users" THEN st.result ELSE users
                      /\ roles' = IF label = "roles" THEN st.result ELSE roles
                      /\ pc' = IF label = "users" THEN AfterUsers ELSE "teams"
                 ELSE /\ te' = st
                      /\ UNCHANGED <<users, roles, pc>>
    /\ UNCHANGED <<env, server, teams, teamMembers, auditLogsAll, ti, ci, pi, files, summary,
                   exitCode, nulls, pr, ld, vw>>

UsersStep == LegacyStep("users")

RolesStep == LegacyStep("roles")

(***************************************************************************)
(* main: teams, memberships, audit logs                                    *)
(***************************************************************************)

\* the next team after index i that has an identifier, 0 if there is none
NextTeam(tms, i) ==
    LET c == { j \in (i + 1)..Len(tms) : uniqueIds(tms[j]) # <<>> }
    IN  IF c = {} THEN 0 ELSE CHOOSE j \in c : \A k \in c : j <= k

\* the for loop over teams moves on to team n, or main() goes on to write
GoToTeam(n) ==
    IF n = 0
    THEN pc' = "write" /\ ti' = 0 /\ ci' = 0 /\ pi' = 0
    ELSE pc' = "members" /\ ti' = n /\ ci' = 1 /\ pi' = 1

TeamsStep ==
    /\ pc = "teams"
    /\ \E res \in TeamsResponses(server.teamLists) :
          LET got == IF Ok(res) /\ res.json.kind # "invalid" THEN TeamsFrom(res.json)
                     ELSE <<>>
          IN  /\ Api(res)
              /\ teams' = got
              /\ GoToTeam(NextTeam(got, 0))
              /\ last' = [stage |-> "teams", team |-> 0, cand |-> 1,
                          failed |-> RespFails(res, got), more |-> FALSE,
                          ok |-> Answered(res)]
    /\ UNCHANGED <<env, server, te, users, roles, teamMembers, auditLogsAll, files, summary,
                   exitCode, nulls, pr, ld, vw>>

\* the membership loops are left: on to the audit logs of the same team
ToAudit == pc' = "audit" /\ ci' = 1 /\ pi' = 0 /\ ti' = ti

\* variant: the patterns are the outer loop, the identifiers the inner one
NextPatternPatternMajor ==
    IF ci < Len(uniqueIds(teams[ti])) THEN pc' = pc /\ ti' = ti /\ ci' = ci + 1 /\ pi' = pi
    ELSE IF pi < NumPatterns THEN pc' = pc /\ ti' = ti /\ ci' = 1 /\ pi' = pi + 1
    ELSE ToAudit

\* `continue`, or the catch block, in the pattern loop
NextPattern ==
    IF pi < NumPatterns THEN pc' = pc /\ ti' = ti /\ ci' = ci /\ pi' = pi + 1
    ELSE IF ci < Len(uniqueIds(teams[ti])) THEN pc' = pc /\ ti' = ti /\ ci' = ci + 1 /\ pi' = 1
    ELSE ToAudit

\* a membership response that ends the probing of the team (got = true)
MemberAccepted(res) ==
    /\ Ok(res)
    /\ res.json.kind # "invalid"
    /\ ~MemberPushThrows(MemberItems(res.json))

MemberStep ==
    /\ pc = "members"
    /\ \E res \in MemberResponses(server.memberArrays) :
          LET t == teams[ti]
              candidate == uniqueIds(t)[ci]
              parsed == Ok(res) /\ res.json.kind # "invalid"
              items == IF parsed THEN MemberItems(res.json) ELSE <<>>
          IN  /\ Api(res)
              /\ nulls' = IF MemberPushThrows(items) THEN nulls + 1 ELSE nulls
              /\ nulls' <= MaxNullBodies
              /\ teamMembers' = teamMembers \o PushMembers(items, t, candidate)
              /\ IF MemberAccepted(res) THEN ToAudit ELSE NextPattern
              /\ last' = [stage |-> "members", team |-> ti,
                          cand |-> (ci - 1) * NumPatterns + pi,
                          failed |-> RespFails(res, items),
                          more |-> ~(ci = Len(uniqueIds(t)) /\ pi = NumPatterns),
                          ok |-> Answered(res)]
    /\ UNCHANGED <<env, server, te, users, roles, teams, auditLogsAll, files, summary, exitCode,
                   pr, ld, vw>>

\* an audit response whose logs are taken (the loop breaks)
AuditAccepted(res) ==
    /\ Ok(res)
    /\ res.json.kind # "invalid"
    /\ AuditItems(res.json) # <<>>

AuditStep ==
    /\ pc = "audit"
    /\ \E res \in AuditResponses(server.logArrays) :
          LET t == teams[ti]
              candidate == uniqueIds(t)[ci]
              items == IF AuditAccepted(res) THEN AuditItems(res.json) ELSE <<>>
          IN  /\ Api(res)
              /\ auditLogsAll' = auditLogsAll \o PushLogs(items, t, candidate)
              /\ IF ~AuditAccepted(res) /\ ci < Len(uniqueIds(t))
                 THEN pc' = pc /\ ti' = ti /\ ci' = ci + 1 /\ pi' = pi
                 ELSE GoToTeam(NextTeam(teams, ti))
              /\ last' = [stage |-> "audit", team |-> ti, cand |-> ci,
                          failed |-> RespFails(res, items),
                          more |-> ci < Len(uniqueIds(t)),
                          ok |-> Answered(res)]
    /\ UNCHANGED <<env, server, te, users, roles, teams, teamMembers, files, summary, exitCode,
                   nulls, pr, ld, vw>>

(***************************************************************************)
(* main: the output files                                                  *)
(***************************************************************************)

OutputFiles == {"users.json", "roles.json", "teams.json", "team_members.json",
                "audit_logs.json"}

\* the keys of the object written to summary.json
SummaryKeys == {"users", "roles", "teams", "team_members"}

\* variant: the team_members entry is computed from the teams array
SummaryEntryTeamsTwice(k) ==
    CASE k = "users" -> metaWrap(users)
      [] k = "roles" -> metaWrap(roles)
      [] OTHER -> metaWrap(teams)

\* the entry of summary.json under key k
SummaryEntry(k) ==
    CASE k = "users" -> metaWrap(users)
      [] k = "roles" -> metaWrap(roles)
      [] k = "teams" -> metaWrap(teams)
      [] OTHER -> metaWrap(teamMembers)

WriteFiles ==
    /\ pc = "write"
    /\ files' = [f \in OutputFiles |->
                   CASE f = "users.json" -> users
                     [] f = "roles.json" -> roles
                     [] f = "teams.json" -> teams
                     [] f = "team_members.json" -> teamMembers
                     [] OTHER -> auditLogsAll]
    /\ summary' = [k \in SummaryKeys |-> SummaryEntry(k)]
    /\ pc' = "done"
    /\ exitCode' = 0
    /\ UNCHANGED <<env, server, ap, cachedJWT, attemptedAuth, sessionCookie, jwt, te, users, roles,
                   teams, teamMembers, auditLogsAll, ti, ci, pi, authLog, lastReq,
                   reqAfterFail, nulls, last, pr, ld, vw>>

Next ==
    \/ CheckCredentials
    \/ AuthPostPrimary
    \/ AuthPostLegacy
    \/ AuthBasicGet
    \/ UsersStep
    \/ RolesStep
    \/ TeamsStep
    \/ MemberStep
    \/ AuditStep
    \/ WriteFiles

Spec == Init /\ [][Next]_vars

\* a run with a bearer token supplied, users and roles not enabled, against a
\* server with more team, membership and audit-log shapes
TeamsEnv == [token |-> "tok", secret |-> "sec", presetBearer |-> "envjwt",
             fetchUsers |-> FALSE, fetchRoles |-> FALSE]

InitTeams ==
    FetchInit({TeamsEnv}, RichServer) /\ pr = ProbeIdle /\ ld = LoadIdle /\ vw = ViewIdle

\* with a bearer token no request goes to the auth endpoint
NextTeams ==
    \/ CheckCredentials
    \/ TeamsStep
    \/ MemberStep
    \/ AuditStep
    \/ WriteFiles

SpecTeams == InitTeams /\ [][NextTeams]_vars

(***************************************************************************)
(* Properties of the fetcher run                                           *)
(***************************************************************************)

PostPrimary == "POST name/secret"

PostLegacy == "POST api_token/api_secret"

GetBasic == "GET basic"

LogKinds == [i \in 1..Len(authLog) |-> authLog[i].req]

\* C1: the exchange starts with the primary POST; the legacy POST is sent
\* exactly once, right after it, if and only if the primary POST was answered
\* 400; the Basic request is sent at most once, last, and only while neither a
\* token nor a cookie is held.
C1_AuthFallbackOrder ==
    /\ LogKinds \in { <<>>, <<PostPrimary>>, <<PostPrimary, PostLegacy>>,
                      <<PostPrimary, GetBasic>>, <<PostPrimary, PostLegacy, GetBasic>> }
    /\ (Len(authLog) >= 1 /\ ap # "post2")
          => (authLog[1].s400 <=> (Len(authLog) >= 2 /\ authLog[2].req = PostLegacy))
    /\ ap = "post2" => (Len(authLog) = 1 /\ authLog[1].s400)
    /\ \A i \in 1..Len(authLog) : authLog[i].req = GetBasic => ~authLog[i].held

\* a 400 on the primary POST was followed by the legacy POST and then Basic
C1_Witness ==
    /\ LogKinds = <<PostPrimary, PostLegacy, GetBasic>>
    /\ authLog[1].s400
    /\ ap = "fetch"

\* the exchange has run and is over
ExchangeOver == attemptedAuth /\ ap \notin {"post2", "basic"}

\* C2: once the exchange is over no request goes to the auth endpoint any
\* more, whatever its outcome; with PRESET_BEARER no request ever goes there.
C2_ExchangeAtMostOnce ==
    /\ [](Truthy(env.presetBearer) => authLog = <<>>)
    /\ [][ExchangeOver => authLog' = authLog]_vars

\* a cookie session (no token cached) has served a later api() call
C2_Witness ==
    /\ attemptedAuth
    /\ ~Truthy(cachedJWT)
    /\ Truthy(sessionCookie)
    /\ pc = "audit"
    /\ lastReq.sent

AllEmpty ==
    /\ users = <<>>
    /\ roles = <<>>
    /\ teams = <<>>
    /\ teamMembers = <<>>
    /\ auditLogsAll = <<>>

\* C3: after a failed exchange no HTTP request is sent, every resource stays
\* empty, the run goes on to the end, writes its files (empty arrays) and
\* ends with status 0.
C3_FailedAuthSkipsAll ==
    AuthFailed =>
        /\ ~reqAfterFail
        /\ ~lastReq.sent
        /\ AllEmpty
        /\ pc # "done" => ENABLED Next
        /\ pc = "done" =>
              /\ exitCode = 0
              /\ DOMAIN files = OutputFiles
              /\ \A f \in OutputFiles : files[f] = <<>>

\* the run ended after a failed exchange, with users and roles enabled
C3_Witness ==
    /\ AuthFailed
    /\ pc = "done"
    /\ env.fetchUsers
    /\ env.fetchRoles

\* C4: without PRESET_API_TOKEN or PRESET_API_SECRET the run ends with status
\* 1, no request is sent and no file is written, PRESET_BEARER or not.
C4_MissingCredentialsFatal ==
    (env.token = Null \/ env.secret = Null) =>
        /\ pc \in {"start", "exit"}
        /\ pc = "exit" => exitCode = 1
        /\ pc = "start" => ENABLED CheckCredentials
        /\ authLog = <<>>
        /\ ~lastReq.sent
        /\ files = NoFiles
        /\ summary = NoFiles

\* the run exited for a missing secret although a bearer token was supplied
C4_Witness ==
    /\ pc = "exit"
    /\ exitCode = 1
    /\ Truthy(env.token)
    /\ ~Truthy(env.secret)
    /\ Truthy(env.presetBearer)

\* the candidate the run is about to request, in the numbering of `last`
CurrentCandidate ==
    CASE pc \in {"users", "roles"} -> te.idx
      [] pc = "members" -> (ci - 1) * NumPatterns + pi
      [] pc = "audit" -> ci
      [] OTHER -> 0

\* C6: no resource failure is fatal: a candidate whose response fails (no
\* response, non-2xx, not JSON, no recognizable non-empty array) is followed by
\* the next candidate of the same resource, and the run ends with all files
\* written and status 0.
C6_NoFailureFatal ==
    /\ (last.failed /\ last.more)
          => (pc = last.stage /\ ti = last.team /\ CurrentCandidate = last.cand + 1)
    /\ pc = "done" => (exitCode = 0 /\ DOMAIN files = OutputFiles)

\* the part of C6 that the code keeps: the same, except that a membership
\* response with a 2xx status ends the probing of its team
C6_ExceptAcceptedMembership ==
    /\ (last.failed /\ last.more /\ ~(last.stage = "members" /\ pc = "audit"))
          => (pc = last.stage /\ ti = last.team /\ CurrentCandidate = last.cand + 1)
    /\ pc = "done" => (exitCode = 0 /\ DOMAIN files = OutputFiles)

Resources == {"users", "roles", "teams", "team_members", "audit_logs"}

FileOf(r) == r \o ".json"

\* C8 as stated: all five files are written and summary.json has, for each of
\* the five resources, the length of the array in its file.
C8_SummaryCoversAllFiles ==
    pc = "done" =>
        /\ DOMAIN files = { FileOf(r) : r \in Resources }
        /\ \A r \in Resources :
              r \in DOMAIN summary /\ summary[r].count = Len(files[FileOf(r)])

\* C8, amended: all five files are written; summary.json has an entry for
\* users, roles, teams and team_members, each with the length of the array in
\* that resource's file, and no entry for audit_logs.
C8_SummaryCoversFourFiles ==
    /\ pc # "done" => (files = NoFiles /\ summary = NoFiles)
    /\ pc = "done" =>
          /\ DOMAIN files = { FileOf(r) : r \in Resources }
          /\ DOMAIN summary = Resources \ {"audit_logs"}
          /\ \A r \in DOMAIN summary : summary[r].count = Len(files[FileOf(r)])

\* a run that wrote a team, a member, an audit log and a user
C8_Witness ==
    /\ pc = "done"
    /\ Len(files["teams.json"]) = 2
    /\ Len(files["team_members.json"]) = 1
    /\ Len(files["audit_logs.json"]) = 1
    /\ Len(files["users.json"]) = 1
    /\ files["roles.json"] = <<>>

(***************************************************************************)
(* SpecProbe: one tryEndpoints call against scripted candidates            *)
(***************************************************************************)

MaxCandidates == 3

MaxPageSize == 2

MaxFullPages == 2

Envelopes == {"result", "data", "bare"}

\* what a candidate answers once its listed pages are used up: an empty page,
\* 404, 500, no response, a body that is not JSON, an unrecognized object, or
\* one more full page every time
Tails == {"empty", "404", "500", "none", "invalid", "unknown", "full"}

\* the page lengths a candidate lists: full pages, then possibly a short one
SizeLists(pageSize) ==
    { [i \in 1..j |-> pageSize] \o short :
        j \in 0..MaxFullPages,
        short \in {<<>>} \cup { <<k>> : k \in 1..(pageSize - 1) } }

\* a candidate endpoint: its envelope, the lengths of its pages, and its tail
Scripts(pageSize) == [env : Envelopes, sizes : SizeLists(pageSize), tail : Tails]

NoScript == [env |-> "bare", sizes |-> <<>>, tail |-> "none"]

\* the records on page p; no record is on two pages
PageItems(p, len) == [i \in 1..len |-> 10 * p + i]

Wrap(e, a) == IF e = "bare" THEN BareBody(a) ELSE Under(e, a)

\* the response of a candidate to the request for page p
Served(sc, pageSize, p) ==
    IF p <= Len(sc.sizes) THEN Http(200, Wrap(sc.env, PageItems(p, sc.sizes[p])))
    ELSE CASE sc.tail = "empty" -> Http(200, Wrap(sc.env, <<>>))
           [] sc.tail = "404" -> Http(404, NullBody)
           [] sc.tail = "500" -> Http(500, NullBody)
           [] sc.tail = "none" -> NoResponse
           [] sc.tail = "invalid" -> Http(200, InvalidBody)
           [] sc.tail = "unknown" -> Http(200, UnderUnknown(PageItems(p, 1)))
           [] OTHER -> Http(200, Wrap(sc.env, PageItems(p, pageSize)))

NoHit == [seen |-> FALSE, cand |-> 0, env |-> "bare", arr |-> <<>>]

\* pr.all404: every earlier candidate was asked once and answered 404
\* pr.hit: the first response of the candidate after those, if it was a 200
\*         with a non-empty array in a recognized envelope
ProbeInit ==
    /\ pr \in [mode : {"run"}, n : 1..MaxCandidates, paginated : BOOLEAN,
               pageSize : 1..MaxPageSize, st : {TryStart}, script : {NoScript},
               all404 : {TRUE}, hit : {NoHit}]
    /\ ld = LoadIdle
    /\ vw = ViewIdle
    /\ FetchIdle

\* one api() call of the tryEndpoints call
ProbeStep ==
    /\ pr.mode = "run"
    /\ ~pr.st.done
    /\ \E sc \in (IF pr.st.page = 0 THEN Scripts(pr.pageSize) ELSE {pr.script}) :
          LET p     == IF pr.paginated THEN pr.st.page + 1 ELSE 1
              res   == Served(sc, pr.pageSize, p)
              first == pr.st.page = 0
              is404 == res.kind = "http" /\ res.status = 404
              isHit == /\ first
                       /\ pr.all404
                       /\ p <= Len(sc.sizes)
                       /\ sc.sizes[p] > 0
          IN  pr' = [pr EXCEPT
                       !.st = TryStep(pr.st, pr.n, pr.paginated, pr.pageSize, res),
                       !.script = sc,
                       !.all404 = IF first THEN pr.all404 /\ is404 ELSE pr.all404,
                       !.hit = IF isHit
                               THEN [seen |-> TRUE, cand |-> pr.st.idx, env |-> sc.env,
                                     arr |-> PageItems(p, sc.sizes[p])]
                               ELSE pr.hit]
    /\ UNCHANGED <<fetchVars, ld, vw>>

SpecProbe == ProbeInit /\ [][ProbeStep]_vars

\* C5 as stated: after N candidates that answer 404, a candidate whose
\* response is a 200 with a non-empty array in a recognized envelope makes
\* tryEndpoints return exactly that array, and no later candidate is asked.
C5_FirstArrayIsReturned ==
    (pr.mode = "run" /\ pr.hit.seen /\ pr.hit.cand >= 2) =>
        /\ pr.st.idx = pr.hit.cand
        /\ pr.st.done => pr.st.result = pr.hit.arr

\* the array ends the pagination: the call is not paginated, or the array is
\* not under `result`, or it is shorter than a page
HitEndsPaging ==
    \/ ~pr.paginated
    \/ pr.hit.env # "result"
    \/ Len(pr.hit.arr) < pr.pageSize

\* C5, amended: the same holds when that array ends the pagination; the
\* candidate is then asked once, tryEndpoints returns exactly that array and
\* no later candidate is asked.
C5_FirstArrayIsReturnedIfLast ==
    (pr.mode = "run" /\ pr.hit.seen /\ HitEndsPaging) =>
        /\ pr.st.done
        /\ pr.st.result = pr.hit.arr
        /\ pr.st.idx = pr.hit.cand
        /\ pr.st.page = 1

\* a paginated call returned a full page served under `data` by the second of
\* three candidates
C5_Witness ==
    /\ pr.mode = "run"
    /\ pr.paginated
    /\ pr.n = 3
    /\ pr.hit.seen
    /\ pr.hit.cand = 2
    /\ pr.hit.env = "data"
    /\ Len(pr.hit.arr) = pr.pageSize
    /\ pr.st.done

\* the candidate lists full pages followed by one short page
FullThenShort(sc, pageSize) ==
    /\ Len(sc.sizes) >= 2
    /\ \A i \in 1..(Len(sc.sizes) - 1) : sc.sizes[i] = pageSize
    /\ sc.sizes[Len(sc.sizes)] > 0
    /\ sc.sizes[Len(sc.sizes)] < pageSize

RECURSIVE ConcatPages(_, _)
ConcatPages(sc, k) ==
    IF k = 0 THEN <<>> ELSE ConcatPages(sc, k - 1) \o PageItems(k, sc.sizes[k])

\* the pages of the candidate were all requested, none after the short one,
\* and the call returned their concatenation
ReturnsAllPages ==
    /\ pr.st.page <= Len(pr.script.sizes)
    /\ pr.st.done =>
          /\ pr.st.page = Len(pr.script.sizes)
          /\ pr.st.result = ConcatPages(pr.script, Len(pr.script.sizes))

\* C7 as stated: a paginated call returns the concatenation of the full pages
\* and the short page, and requests no page after the short one, whichever of
\* the three envelopes the pages come in.
C7_PaginationAnyEnvelope ==
    (pr.mode = "run" /\ pr.paginated /\ FullThenShort(pr.script, pr.pageSize))
        => ReturnsAllPages

\* C7, amended: the same for pages that come under `result`; under `data` or
\* as bare arrays the call returns after the first page.
C7_PaginationUnderResult ==
    /\ (pr.mode = "run" /\ pr.paginated /\ FullThenShort(pr.script, pr.pageSize))
          => IF pr.script.env = "result" THEN ReturnsAllPages
             ELSE /\ pr.st.page <= 1
                  /\ pr.st.done => pr.st.result = PageItems(1, pr.pageSize)

\* two full pages and a short one under `result` were returned as one array
C7_Witness ==
    /\ pr.mode = "run"
    /\ pr.paginated
    /\ pr.script.env = "result"
    /\ FullThenShort(pr.script, pr.pageSize)
    /\ Len(pr.script.sizes) = 3
    /\ pr.st.done
    /\ Len(pr.st.result) = 2 * pr.pageSize + pr.script.sizes[3]

(***************************************************************************)
(* SpecLoad: one fetchDataFile call and the page that made it              *)
(***************************************************************************)

\* base: '/preset-analytics-app/' of the Vite configuration, as path tokens
ConfiguredBase == <<"/", "preset-analytics-app", "/">>

\* the values BASE_URL may have: the configured one, none, the root, and
\* overrides with doubled or missing slashes
BaseUrls == { ConfiguredBase, <<>>, <<"/">>, <<"/", "/", "staging">>, <<".", "/">> }

\* .replace(/\/+/g, '/')
RECURSIVE CollapseSlashes(_)
CollapseSlashes(u) ==
    IF Len(u) <= 1 THEN u
    ELSE IF u[1] = "/" /\ u[2] = "/" THEN CollapseSlashes(Tail(u))
    ELSE <<u[1]>> \o CollapseSlashes(Tail(u))

\* normalizedBase
NormalizedBase(baseUrl) ==
    LET base == CollapseSlashes(IF baseUrl = <<>> THEN <<"/">> ELSE baseUrl)
    IN  IF base[Len(base)] = "/" THEN base ELSE Append(base, "/")

\* names
Names(baseUrl, file) ==
    << NormalizedBase(baseUrl) \o <<"data", "/", file>>,
       <<"/", "data", "/", file>>,
       <<"data", "/", file>>,
       <<"/", "preset-analytics-app", "/", "data", "/", file>> >>

CacheBust(u) == Append(u, "?ck")

\* variant: the names are requested as listed, repeats included
LoadCandidatesAsListed(baseUrl, file) ==
    [i \in 1..4 |-> CacheBust(Names(baseUrl, file)[i])]

\* candidates
LoadCandidates(baseUrl, file) ==
    LET distinct == Dedupe(Names(baseUrl, file))
    IN  [i \in 1..Len(distinct) |-> CacheBust(distinct[i])]

\* what a location answers: fetch throws, a failing status, or 200 with a
\* JSON array or with a body that is not JSON
LoadResponses ==
    {NoResponse} \cup { Http(st, NullBody) : st \in FailStatuses }
    \cup { Http(200, b) : b \in {BareBody(<<>>), BareBody(Items(2)), InvalidBody} }

\* the calls the pages make: the Audit Logs and Analytics pages, the Teams page
LoadCalls == { [file |-> "audit_logs.json", optional |-> TRUE],
               [file |-> "teams.json", optional |-> FALSE] }

Pending == [state |-> "pending", value |-> NullBody, error |-> Null, lines |-> <<>>]

Resolved(json) == [state |-> "resolved", value |-> json, error |-> Null, lines |-> <<>>]

Rejected(error, lines) ==
    [state |-> "rejected", value |-> NullBody, error |-> error, lines |-> lines]

\* the state of the page after setLoading(true); setError(null)
PageLoading == [loading |-> TRUE, error |-> Null, logs |-> BareBody(<<>>)]

\* ld.reqs: the URLs requested, in order; ld.got: the body of the response
\* that was ok, if any; ld.out: the promise fetchDataFile returned
LoadInit ==
    /\ ld \in [mode : {"run"}, call : LoadCalls, baseUrl : BaseUrls, i : {1},
               errors : {<<>>}, reqs : {<<>>}, got : {NullBody}, out : {Pending},
               page : {PageLoading}]
    /\ pr = ProbeIdle
    /\ vw = ViewIdle
    /\ FetchIdle

\* after the for loop
AfterCandidates(optional, errors) ==
    IF optional THEN Resolved(BareBody(<<>>))
    ELSE Rejected("All fetch attempts failed", errors)

\* one turn of the for loop, and the statements after the loop when it was
\* the last turn
LoadStep ==
    /\ ld.mode = "run"
    /\ ld.out.state = "pending"
    /\ LET cands == LoadCandidates(ld.baseUrl, ld.call.file)
           url   == cands[ld.i]
       IN  \E res \in LoadResponses :
             IF Ok(res)
             THEN ld' = [ld EXCEPT
                           !.reqs = Append(ld.reqs, url),
                           !.got = res.json,
                           !.out = IF res.json.kind = "invalid"
                                   THEN Rejected("SyntaxError", <<>>)
                                   ELSE Resolved(res.json)]
             ELSE LET errors == Append(ld.errors, [url |-> url, status |-> res.status])
                  IN  ld' = [ld EXCEPT
                               !.reqs = Append(ld.reqs, url),
                               !.errors = errors,
                               !.i = ld.i + 1,
                               !.out = IF ld.i = Len(cands)
                                       THEN AfterCandidates(ld.call.optional, errors)
                                       ELSE Pending]
    /\ UNCHANGED <<fetchVars, pr, vw>>

\* .then(d => setLogs(d)).catch(e => setError(String(e))).finally(() => setLoading(false))
PageSettle ==
    /\ ld.mode = "run"
    /\ ld.call.optional
    /\ ld.out.state # "pending"
    /\ ld.page.loading
    /\ ld' = [ld EXCEPT !.page =
                IF ld.out.state = "resolved"
                THEN [loading |-> FALSE, error |-> Null, logs |-> ld.out.value]
                ELSE [loading |-> FALSE, error |-> ld.out.error, logs |-> ld.page.logs]]
    /\ UNCHANGED <<fetchVars, pr, vw>>

LoadNext == LoadStep \/ PageSettle

SpecLoad == LoadInit /\ [][LoadNext]_vars

\* the last location requested responded successfully
Succeeded == Len(ld.reqs) = Len(ld.errors) + 1

IsPrefix(a, b) == Len(a) <= Len(b) /\ \A i \in 1..Len(a) : a[i] = b[i]

\* the four locations in the order of the claim, each with the cache-busting
\* parameter
FourLocations ==
    [i \in 1..4 |-> CacheBust(Names(ld.baseUrl, ld.call.file)[i])]

\* the locations among the four that repeat no earlier one, in order
RECURSIVE Pick(_, _)
Pick(u, keep) ==
    IF u = <<>> THEN <<>>
    ELSE IF keep[1] THEN <<u[1]>> \o Pick(Tail(u), Tail(keep))
    ELSE Pick(Tail(u), Tail(keep))

DistinctLocations ==
    Pick(FourLocations,
         [i \in 1..4 |-> \A j \in 1..(i - 1) : FourLocations[j] # FourLocations[i]])

\* the call settles on the first success with that body, and not before
SettlesOnFirstSuccess ==
    /\ Succeeded => ld.out.state # "pending"
    /\ (Succeeded /\ ld.got.kind # "invalid") => ld.out = Resolved(ld.got)
    /\ \A i \in 1..Len(ld.errors) : ld.errors[i].url = ld.reqs[i]

\* C9 as stated, for the configured base: the four locations are requested in
\* order until one responds successfully; the call returns that body and
\* requests nothing after it.
C9_TriesFourInOrder ==
    (ld.mode = "run" /\ ld.baseUrl = ConfiguredBase) =>
        /\ IsPrefix(ld.reqs, FourLocations)
        /\ (ld.out.state # "pending" /\ ~Succeeded) => Len(ld.reqs) = 4
        /\ SettlesOnFirstSuccess

\* C9, amended: the locations among the four that repeat no earlier one are
\* requested in order until one responds successfully; the call settles with
\* that response's body and requests nothing after it.
C9_TriesDistinctInOrder ==
    ld.mode = "run" =>
        /\ IsPrefix(ld.reqs, DistinctLocations)
        /\ (ld.out.state # "pending" /\ ~Succeeded) => ld.reqs = DistinctLocations
        /\ (ld.out.state = "pending") => Len(ld.reqs) < Len(DistinctLocations)
        /\ SettlesOnFirstSuccess

\* with the configured base all three distinct locations failed
C9_Witness ==
    /\ ld.mode = "run"
    /\ ld.baseUrl = ConfiguredBase
    /\ ld.out.state # "pending"
    /\ ~Succeeded
    /\ Len(ld.reqs) = 3
    /\ Len(FourLocations) = 4

\* C10: when no location yields a parsed JSON body, a call with optional=true
\* resolves to an empty array, so that the page shows no error, and a call
\* without optional rejects with an error that lists every requested URL.
C10_OptionalNeverRejects ==
    (ld.mode = "run" /\ ld.out.state # "pending"
       /\ ~(Succeeded /\ ld.got.kind # "invalid")) =>
        IF ld.call.optional
        THEN /\ ld.out = Resolved(BareBody(<<>>))
             /\ ~ld.page.loading => (ld.page.error = Null /\ ld.page.logs = BareBody(<<>>))
        ELSE /\ ld.out.state = "rejected"
             /\ [i \in 1..Len(ld.out.lines) |-> ld.out.lines[i].url] = ld.reqs

\* the part of C10 that the code keeps: the same when no location responded
\* successfully at all
C10_WhenEveryLocationFails ==
    (ld.mode = "run" /\ ld.out.state # "pending" /\ ~Succeeded) =>
        IF ld.call.optional
        THEN /\ ld.out = Resolved(BareBody(<<>>))
             /\ ~ld.page.loading => (ld.page.error = Null /\ ld.page.logs = BareBody(<<>>))
        ELSE /\ ld.out.state = "rejected"
             /\ [i \in 1..Len(ld.out.lines) |-> ld.out.lines[i].url] = ld.reqs

(***************************************************************************)
(* SpecSearch: search(obj, q) of utils/search.ts                           *)
(***************************************************************************)

MaxQueryLen == 2

\* a JSON value: null, a string (its characters, or the words and blanks it
\* is made of), a number, a boolean (n is 1 for true), an array or an object
\* (kids holds the elements, with their keys for an object)
Leaf(t, s, n) == [t |-> t, s |-> s, n |-> n, kids |-> <<>>]

Node(t, kids) == [t |-> t, s |-> <<>>, n |-> 0, kids |-> kids]

Kid(k, v) == [k |-> k, v |-> v]

\* String(n) of a natural number: its decimal digits
RECURSIVE DigitsOf(_)
DigitsOf(n) ==
    LET digit == <<"0", "1", "2", "3", "4", "5", "6", "7", "8", "9">>[(n % 10) + 1]
    IN  IF n < 10 THEN <<digit>> ELSE Append(DigitsOf(n \div 10), digit)

\* String(val) of a string, a number or a boolean
StringOf(val) ==
    CASE val.t = "str" -> val.s
      [] val.t = "num" -> DigitsOf(val.n)
      [] OTHER -> IF val.n = 1 THEN <<"t", "r", "u", "e">> ELSE <<"f", "a", "l", "s", "e">>

\* variant: the text is compared as written
toLowerCaseNot(str) == str

\* str.toLowerCase()
toLowerCase(str) ==
    [i \in 1..Len(str) |-> CASE str[i] = "A" -> "a" [] str[i] = "B" -> "b"
                             [] str[i] = "K" -> "k"
                             [] str[i] = "Production" -> "production"
                             [] str[i] = "Pre-Production" -> "pre-production"
                             [] str[i] = "Sandbox" -> "sandbox"
                             [] str[i] = "QA" -> "qa"
                             [] str[i] = "Unknown" -> "unknown"
                             [] str[i] = "ALL" -> "all"
                             [] OTHER -> str[i]]

\* hay.includes(needle)
includes(hay, needle) ==
    \E i \in 0..(Len(hay) - Len(needle)) : SubSeq(hay, i + 1, i + Len(needle)) = needle

RECURSIVE visit(_, _)
visit(val, needle) ==
    IF val.t = "null" THEN FALSE
    ELSE IF val.t \in {"str", "num", "bool"}
         THEN includes(toLowerCase(StringOf(val)), needle)
    ELSE \E i \in 1..Len(val.kids) : visit(val.kids[i].v, needle)

search(obj, q) == IF q = <<>> THEN TRUE ELSE visit(obj, toLowerCase(q))

\* the records and queries searched: scalars, and arrays and objects of them,
\* nested twice; the keys hold letters that the values do not
SearchScalars ==
    { Leaf("null", <<>>, 0), Leaf("str", <<"A", "b">>, 0), Leaf("str", <<>>, 0),
      Leaf("num", <<>>, 12), Leaf("bool", <<>>, 0) }

Containers(vals) ==
    { Node("arr", <<Kid(<<>>, v)>>) : v \in vals }
    \cup { Node("obj", <<Kid(<<"k">>, v)>>) : v \in vals }

SearchRecords ==
    LET pairs == { Node(t, <<Kid(<<"k">>, v), Kid(<<"K", "b">>, w)>>) :
                     t \in {"arr", "obj"}, v \in SearchScalars, w \in SearchScalars }
        flat  == SearchScalars \cup Containers(SearchScalars) \cup pairs
    IN  flat \cup Containers(flat)

SearchQueries(maxLen) ==
    UNION { [1..n -> {"a", "A", "b", "B", "k", "1"}] : n \in 0..maxLen }

SearchInit ==
    /\ vw \in [mode : {"search"}, obj : SearchRecords, q : SearchQueries(MaxQueryLen),
               done : {FALSE}, out : {FALSE}]
    /\ pr = ProbeIdle
    /\ ld = LoadIdle
    /\ FetchIdle

SearchCall ==
    /\ vw.mode = "search"
    /\ ~vw.done
    /\ vw' = [vw EXCEPT !.done = TRUE, !.out = search(vw.obj, vw.q)]
    /\ UNCHANGED <<fetchVars, pr, ld>>

SpecSearch == SearchInit /\ [][SearchCall]_vars

\* the texts of the scalar leaves of a value, at any depth
RECURSIVE LeafTexts(_)
LeafTexts(val) ==
    IF val.t \in {"str", "num", "bool"} THEN {StringOf(val)}
    ELSE UNION { LeafTexts(val.kids[i].v) : i \in 1..Len(val.kids) }

\* two characters are the same letter in either case
SameLetter(c, d) ==
    \/ c = d
    \/ \E pair \in { {"a", "A"}, {"b", "B"}, {"k", "K"} } : c \in pair /\ d \in pair

\* q occurs in text, case ignored
OccursIn(q, text) ==
    \E i \in 0..(Len(text) - Len(q)) : \A j \in 1..Len(q) : SameLetter(text[i + j], q[j])

\* C11: search(r, q) is true exactly when q is empty or some scalar leaf of r,
\* coerced to a string, contains q with case ignored; keys do not count.
C11_SearchMatchesLeaves ==
    (vw.mode = "search" /\ vw.done) =>
        (vw.out <=> (vw.q = <<>> \/ \E text \in LeafTexts(vw.obj) : OccursIn(vw.q, text)))

\* a query in other case matched a string nested two levels down, and not
\* through the key that holds the same letters
C11_Witness ==
    /\ vw.mode = "search"
    /\ vw.done
    /\ vw.out
    /\ vw.q = <<"a", "B">>
    /\ vw.obj = Node("obj", <<Kid(<<"k">>, Node("arr", <<Kid(<<>>, Leaf("str", <<"A", "b">>, 0))>>))>>)

(***************************************************************************)
(* SpecAnalytics: the derived data of the Analytics page                   *)
(***************************************************************************)

MaxLogs == 3

StrV(str) == Leaf("str", str, 0)

\* l.key, null when the key is missing or l is not an object
Get(l, key) ==
    IF l.t = "obj" /\ \E i \in 1..Len(l.kids) : l.kids[i].k = key
    THEN l.kids[CHOOSE i \in 1..Len(l.kids) : l.kids[i].k = key].v
    ELSE Leaf("null", <<>>, 0)

\* JavaScript truthiness of a JSON value
IsTruthy(v) ==
    CASE v.t = "null" -> FALSE
      [] v.t = "str" -> v.s # <<>>
      [] v.t = "num" -> v.n # 0
      [] v.t = "bool" -> v.n = 1
      [] OTHER -> TRUE

\* a || b
OrElse(a, b) == IF IsTruthy(a) THEN a ELSE b

\* str.trim()
RECURSIVE trim(_)
trim(str) ==
    IF str = <<>> THEN str
    ELSE IF str[1] = " " THEN trim(Tail(str))
    ELSE IF str[Len(str)] = " " THEN trim(SubSeq(str, 1, Len(str) - 1))
    ELSE str

\* the filter's default for a record without workspace
FilterDefault == <<"Unknown">>

\* (l.workspace_title || l.workspace_name || 'unknown').trim() || 'unknown'
title(l) ==
    LET raw == OrElse(OrElse(Get(l, "workspace_title"), Get(l, "workspace_name")),
                      StrV(<<"unknown">>))
    IN  IF trim(raw.s) # <<>> THEN trim(raw.s) ELSE <<"unknown">>

\* variant: Sandbox is preferred to Production
desiredOrderSandboxFirst == << <<"Sandbox">>, <<"Pre-Production">>, <<"Production">>, <<"unknown">> >>

desiredOrder == << <<"Production">>, <<"Pre-Production">>, <<"Sandbox">>, <<"unknown">> >>

\* desiredOrder.forEach: the first name found that equals the desired one,
\* case ignored, is pushed to ordered and deleted from found
RECURSIVE PlaceDesired(_, _, _)
PlaceDesired(names, ordered, found) ==
    IF names = <<>> THEN [ordered |-> ordered, found |-> found]
    ELSE LET hits == { i \in 1..Len(found) : toLowerCase(found[i]) = toLowerCase(names[1]) }
             f    == found[CHOOSE i \in hits : \A j \in hits : i <= j]
         IN  IF hits = {} THEN PlaceDesired(Tail(names), ordered, found)
             ELSE PlaceDesired(Tail(names), Append(ordered, f),
                               SelectSeq(found, LAMBDA g : g # f))

\* the place of a name in the order of localeCompare
CollationRank(name) ==
    CASE name = <<"all">> -> 1
      [] name = <<"ALL">> -> 2
      [] name = <<"Pre-Production">> -> 3
      [] name = <<"production">> -> 4
      [] name = <<"Production">> -> 5
      [] name = <<"qa">> -> 6
      [] name = <<"QA">> -> 7
      [] name = <<"sandbox">> -> 8
      [] name = <<"Sandbox">> -> 9
      [] name = <<"unknown">> -> 10
      [] name = <<"Unknown">> -> 11
      [] OTHER -> 12

\* Array.prototype.sort, which is stable: ascending by key
RECURSIVE SortByKey(_)
SortByKey(seq) ==
    IF seq = <<>> THEN <<>>
    ELSE LET init == SortByKey(SubSeq(seq, 1, Len(seq) - 1))
             x    == seq[Len(seq)]
             k    == Cardinality({ i \in 1..Len(init) : init[i].key <= x.key })
         IN  SubSeq(init, 1, k) \o <<x>> \o SubSeq(init, k + 1, Len(init))

workspaces(logs) ==
    LET found     == Dedupe([i \in 1..Len(logs) |-> title(logs[i])])
        placed    == PlaceDesired(desiredOrder, << <<"ALL">> >>, found)
        left      == SelectSeq(placed.found,
                               LAMBDA f : \A i \in 1..Len(placed.ordered) : placed.ordered[i] # f)
        remaining == SortByKey([i \in 1..Len(left) |->
                                  [key |-> CollationRank(left[i]), item |-> left[i]]])
    IN  placed.ordered \o [i \in 1..Len(remaining) |-> remaining[i].item]

\* 24*3600*1000 milliseconds; time is counted in minutes here, which keeps a
\* year within the integers of the model checker
DayMs == 24 * 60

\* variant: every range is a week
rangeMsWeekOnly(range) == 7 * DayMs

rangeMs(range) ==
    IF range = "week" THEN 7 * DayMs ELSE IF range = "month" THEN 30 * DayMs ELSE 365 * DayMs

\* the text of a timestamp in a format Date.parse reads; n is its instant
TimeText == <<"2025-01-01T00:00:00Z">>

\* l.timestamp ? Date.parse(l.timestamp) : NaN
ts(l) ==
    LET v == Get(l, "timestamp")
    IN  IF IsTruthy(v) /\ v.t = "str" /\ v.s = TimeText
        THEN [nan |-> FALSE, ms |-> v.n]
        ELSE [nan |-> TRUE, ms |-> 0]

filtered(logs, workspace, query, range, now) ==
    LET cutoff == now - rangeMs(range)
        wsOf(l) == OrElse(OrElse(Get(l, "workspace_title"), Get(l, "workspace_name")),
                          StrV(FilterDefault)).s
        keep(l) == /\ ~(workspace # <<"ALL">> /\ wsOf(l) # workspace)
                   /\ ~(query # <<>> /\ ~search(l, query))
                   /\ ~(~ts(l).nan /\ ts(l).ms < cutoff)
    IN  SelectSeq(logs, keep)

\* l.action || l.event || l.type
actionOf(l) == OrElse(OrElse(Get(l, "action"), Get(l, "event")), Get(l, "type"))

\* typeof l.user === 'string' ? l.user : (l.user?.email || l.user_email || 'Unknown')
userOf(l) ==
    IF Get(l, "user").t = "str" THEN Get(l, "user")
    ELSE OrElse(OrElse(Get(Get(l, "user"), "email"), Get(l, "user_email")), StrV(<<"Unknown">>))

\* m[label] = (m[label] || 0) + 1 on an object whose own keys are in m, in
\* the order they were first written. The key __proto__ is the accessor of
\* Object.prototype: reading it gives the prototype, and writing a string to
\* it does nothing, so the object gets no key. The labels of the model are
\* never the name of another member of Object.prototype.
Count(m, label) ==
    IF label = <<"__proto__">> THEN m
    ELSE IF \E i \in 1..Len(m) : m[i].label = label
    THEN [i \in 1..Len(m) |-> IF m[i].label = label
                              THEN [label |-> label, value |-> m[i].value + 1]
                              ELSE m[i]]
    ELSE Append(m, [label |-> label, value |-> 1])

\* filtered.forEach: the map named `which` after the records of logs
RECURSIVE Tally(_, _)
Tally(logs, which) ==
    IF logs = <<>> THEN <<>>
    ELSE LET m      == Tally(SubSeq(logs, 1, Len(logs) - 1), which)
             l      == logs[Len(logs)]
             action == actionOf(l)
             entity == Get(l, "entity_name")
             viewed == IF which = "chartViews" THEN <<"chart:view">> ELSE <<"dashboard:view">>
         IN  CASE which = "actionCounts" ->
                    IF IsTruthy(action) THEN Count(m, StringOf(action)) ELSE m
               [] which = "activeUsers" -> Count(m, StringOf(userOf(l)))
               [] OTHER ->
                    IF action.t = "str" /\ action.s = viewed /\ IsTruthy(entity)
                    THEN Count(m, StringOf(entity)) ELSE m

\* the keys that are array indices, which an object lists first
IndexKeys == 0..99

\* Object.entries(m): the keys that are array indices in ascending order,
\* then the other keys in the order they were first written
ObjectEntries(m) ==
    LET isIndex(e) == \E n \in IndexKeys : DigitsOf(n) = e.label
        indexOf(e) == CHOOSE n \in IndexKeys : DigitsOf(n) = e.label
        indices    == SelectSeq(m, isIndex)
        sorted     == SortByKey([i \in 1..Len(indices) |->
                                   [key |-> indexOf(indices[i]), item |-> indices[i]]])
    IN  [i \in 1..Len(sorted) |-> sorted[i].item]
        \o SelectSeq(m, LAMBDA e : ~isIndex(e))

\* Object.entries(m).map(...).sort((a,b) => b.value - a.value)
toSorted(m) ==
    LET entries == ObjectEntries(m)
        sorted  == SortByKey([i \in 1..Len(entries) |->
                                [key |-> 0 - entries[i].value, item |-> entries[i]]])
    IN  [i \in 1..Len(sorted) |-> sorted[i].item]

Series == {"chartViews", "dashboardViews", "activeUsers", "actionCounts"}

metrics(logs) == [which \in Series |-> toSorted(Tally(logs, which))]

\* Date.now() of the evaluation
Now == 400 * DayMs

\* the page with its state and what it derives from it
Page(logs, workspace, query, range) ==
    [mode |-> "analytics", logs |-> logs, workspace |-> workspace, query |-> query,
     range |-> range,
     workspaces |-> workspaces(logs),
     filtered |-> filtered(logs, workspace, query, range, Now),
     metrics |-> metrics(filtered(logs, workspace, query, range, Now))]

Log(kids) == Node("obj", kids)

\* audit logs that differ in their workspace fields
WorkspaceLogs ==
    { Log(<<>>), Log(<<Kid("workspace_name", StrV(<<"QA">>))>>),
      Log(<<Kid("workspace_title", StrV(<<" ">>)), Kid("workspace_name", StrV(<<"QA">>))>>) }
    \cup { Log(<<Kid("workspace_title", StrV(<<w>>))>>) :
             w \in {"Production", "production", "sandbox"} }

\* an audit log of the given age
Aged(ms) == Log(<<Kid("timestamp", Leaf("str", TimeText, Now - ms))>>)

\* audit logs that differ in their timestamp
TimedLogs ==
    { Aged(ms) : ms \in {7 * DayMs, 7 * DayMs + 1, 8 * DayMs, 366 * DayMs} }
    \cup { Log(<<Kid("timestamp", StrV(<<"soon">>))>>),
           Log(<<Kid("timestamp", Leaf("null", <<>>, 0))>>) }

\* audit logs that differ in action, entity and user
ViewLogs ==
    { Log(<<Kid("action", StrV(<<"chart:view">>)), Kid("entity_name", StrV(e))>>) :
        e \in { <<"A">>, <<"B">>, <<"2">>, <<"1">> } }
    \cup { Log(<<Kid("event", StrV(<<"dashboard:view">>)), Kid("entity_name", StrV(<<"A">>)),
                 Kid("user", Node("obj", <<Kid("email", StrV(<<"k">>))>>))>>),
           Log(<<Kid("action", StrV(<<"login">>)), Kid("user", StrV(<<"__proto__">>))>>) }

\* the records of audit_logs.json, at most maxLogs of them
LogFiles(maxLogs) ==
    UNION { [1..n -> logs] : n \in 0..maxLogs, logs \in {WorkspaceLogs, TimedLogs, ViewLogs} }

AnalyticsInit ==
    /\ vw \in { Page(logs, <<"ALL">>, <<>>, "week") : logs \in LogFiles(MaxLogs) }
    /\ pr = ProbeIdle
    /\ ld = LoadIdle
    /\ FetchIdle

\* onClick={() => setWorkspace(ws)} of one of the buttons
SetWorkspace ==
    /\ vw.mode = "analytics"
    /\ \E i \in 1..Len(vw.workspaces) :
          vw' = Page(vw.logs, vw.workspaces[i], vw.query, vw.range)
    /\ UNCHANGED <<fetchVars, pr, ld>>

\* onChange={e => setRange(e.target.value)}
SetRange ==
    /\ vw.mode = "analytics"
    /\ \E range \in {"week", "month", "year"} :
          vw' = Page(vw.logs, vw.workspace, vw.query, range)
    /\ UNCHANGED <<fetchVars, pr, ld>>

\* onChange={e => setQuery(e.target.value)}
SetQuery ==
    /\ vw.mode = "analytics"
    /\ \E query \in { <<>>, <<"qa">> } :
          vw' = Page(vw.logs, vw.workspace, query, vw.range)
    /\ UNCHANGED <<fetchVars, pr, ld>>

AnalyticsNext == SetWorkspace \/ SetRange \/ SetQuery

SpecAnalytics == AnalyticsInit /\ [][AnalyticsNext]_vars

\* the window of a range as the page describes it: 7, 30 or 365 days
WindowDays(range) == CASE range = "week" -> 7 [] range = "month" -> 30 [] OTHER -> 365

\* the record has a timestamp that parses, older than the window of the range
OlderThanWindow(l, range) ==
    /\ Get(l, "timestamp").t = "str"
    /\ Get(l, "timestamp").s = TimeText
    /\ Get(l, "timestamp").n < Now - WindowDays(range) * DayMs

\* C12: with no workspace selected and no query, the records shown are the
\* records of the file except those whose timestamp parses and is older than
\* now minus the window of the selected range (7, 30 or 365 days); a record
\* whose timestamp is missing or does not parse is shown under every range
C12_TimeRangeFilter ==
    (vw.mode = "analytics" /\ vw.workspace = <<"ALL">> /\ vw.query = <<>>)
        => vw.filtered = SelectSeq(vw.logs, LAMBDA l : ~OlderThanWindow(l, vw.range))

\* under the month range a record 8 days old and a record whose timestamp
\* does not parse are shown, a record 366 days old is not
C12_Witness ==
    /\ vw.mode = "analytics"
    /\ vw.range = "month"
    /\ vw.workspace = <<"ALL">>
    /\ vw.query = <<>>
    /\ vw.logs = <<Aged(8 * DayMs), Log(<<Kid("timestamp", StrV(<<"soon">>))>>), Aged(366 * DayMs)>>
    /\ vw.filtered = <<Aged(8 * DayMs), Log(<<Kid("timestamp", StrV(<<"soon">>))>>)>>

\* the same record 8 days old is not shown under the week range
C12_WeekExcludesEightDays ==
    (vw.mode = "analytics" /\ vw.range = "week")
        => \A i \in 1..Len(vw.filtered) : vw.filtered[i] # Aged(8 * DayMs)


\* the record has neither workspace_title nor workspace_name
Unlabelled(l) == Get(l, "workspace_title").t = "null" /\ Get(l, "workspace_name").t = "null"

\* C13: with the `unknown` option of the workspace list selected (no query),
\* the records shown are exactly the records within the time range that have
\* neither workspace_title nor workspace_name
C13_UnknownOptionShowsUnlabelled ==
    (vw.mode = "analytics" /\ vw.workspace = <<"unknown">> /\ vw.query = <<>>)
        => vw.filtered = SelectSeq(vw.logs,
                                   LAMBDA l : Unlabelled(l) /\ ~OlderThanWindow(l, vw.range))

\* what the page does instead: a record without workspace fields is given
\* the workspace 'Unknown' by the filter, which no option of a list built
\* from such records equals, so the `unknown` option shows none of them
C13_UnknownOptionHidesUnlabelled ==
    (vw.mode = "analytics" /\ vw.workspace = <<"unknown">>)
        => \A i \in 1..Len(vw.filtered) : ~Unlabelled(vw.filtered[i])

\* the `unknown` option was offered for a file of unlabelled records, was
\* selected, and the page shows nothing
C13_Witness ==
    /\ vw.mode = "analytics"
    /\ vw.logs = <<Log(<<>>), Log(<<>>)>>
    /\ vw.workspaces = << <<"ALL">>, <<"unknown">> >>
    /\ vw.workspace = <<"unknown">>
    /\ vw.query = <<>>
    /\ vw.filtered = <<>>


\* the place of a name among the preferred names Production, Pre-Production,
\* Sandbox, unknown, case ignored; 0 for any other name
PreferredRank(name) ==
    CASE toLowerCase(name) = <<"production">> -> 1
      [] toLowerCase(name) = <<"pre-production">> -> 2
      [] toLowerCase(name) = <<"sandbox">> -> 3
      [] toLowerCase(name) = <<"unknown">> -> 4
      [] OTHER -> 0

\* the workspace names of the records, in the order of the file
Observed(logs) == [i \in 1..Len(logs) |-> title(logs[i])]

\* for each preferred name, the first observed name that matches it
FirstMatches(logs) ==
    LET T == Observed(logs)
    IN  { T[i] : i \in { i \in 1..Len(T) :
                           /\ PreferredRank(T[i]) > 0
                           /\ \A j \in 1..(i - 1) : PreferredRank(T[j]) # PreferredRank(T[i]) } }

\* C14: the option list is ALL, then for each of Production, Pre-Production,
\* Sandbox, unknown (in that order) the first observed name that matches it
\* ignoring case, then every other observed name in alphabetical order; the
\* list holds each observed name once and never the same entry twice
C14_WorkspaceOptions ==
    vw.mode = "analytics" =>
        LET ws == vw.workspaces
            k  == 1 + Cardinality(FirstMatches(vw.logs))
        IN  /\ ws[1] = <<"ALL">>
            /\ { ws[i] : i \in 2..Len(ws) }
                 = { Observed(vw.logs)[i] : i \in 1..Len(vw.logs) } \ { <<"ALL">> }
            /\ \A i, j \in 1..Len(ws) : i # j => ws[i] # ws[j]
            /\ \A i \in 2..Len(ws) : (i <= k) <=> (ws[i] \in FirstMatches(vw.logs))
            /\ \A i, j \in 2..k : i < j => PreferredRank(ws[i]) < PreferredRank(ws[j])
            /\ \A i, j \in (k + 1)..Len(ws) : i < j => CollationRank(ws[i]) <= CollationRank(ws[j])

\* records of production, Production and sandbox: the first observed match
\* of Production takes the preferred place, the other one follows in the rest
C14_Witness ==
    /\ vw.mode = "analytics"
    /\ Observed(vw.logs) = << <<"production">>, <<"Production">>, <<"sandbox">> >>
    /\ vw.workspaces = << <<"ALL">>, <<"production">>, <<"sandbox">>, <<"Production">> >>

\* C14 as stated: no two entries of the option list are equal ignoring case
C14_NoTwoEqualIgnoringCase ==
    vw.mode = "analytics" =>
        \A i, j \in 1..Len(vw.workspaces) :
            i # j => toLowerCase(vw.workspaces[i]) # toLowerCase(vw.workspaces[j])

\* the example of the claim: sandbox, Production, QA give ALL, Production,
\* sandbox, QA
C14_Example ==
    (vw.mode = "analytics"
        /\ Observed(vw.logs) = << <<"sandbox">>, <<"Production">>, <<"QA">> >>)
        => vw.workspaces = << <<"ALL">>, <<"Production">>, <<"sandbox">>, <<"QA">> >>


\* the place at which the label was first counted for the series
FirstCounted(which, label) ==
    LET m == Tally(vw.filtered, which)
    IN  CHOOSE i \in 1..Len(m) : m[i].label = label

ChartView(e) == Log(<<Kid("action", StrV(<<"chart:view">>)), Kid("entity_name", StrV(e))>>)

\* C15: every series is in descending order of count, and labels of equal
\* count are in the order in which they first occurred in the records shown
C15_TiesInFirstOccurrenceOrder ==
    vw.mode = "analytics" =>
        \A which \in Series :
            LET m == vw.metrics[which]
            IN  \A i, j \in 1..Len(m) :
                    i < j => \/ m[i].value > m[j].value
                             \/ /\ m[i].value = m[j].value
                                /\ FirstCounted(which, m[i].label) < FirstCounted(which, m[j].label)

\* what holds of every series: descending order of count, one entry for
\* each label counted, with its count
C15_CountDescending ==
    vw.mode = "analytics" =>
        \A which \in Series :
            LET m == vw.metrics[which]
            IN  /\ \A i, j \in 1..Len(m) : i < j => m[i].value >= m[j].value
                /\ { m[i] : i \in 1..Len(m) }
                     = { Tally(vw.filtered, which)[i] : i \in 1..Len(Tally(vw.filtered, which)) }
                /\ Len(m) = Len(Tally(vw.filtered, which))

\* the example of the claim: views of A, A, B give A with 2, then B with 1
C15_Example ==
    (vw.mode = "analytics" /\ vw.filtered = <<ChartView(<<"A">>), ChartView(<<"A">>), ChartView(<<"B">>)>>)
        => vw.metrics["chartViews"] = << [label |-> <<"A">>, value |-> 2],
                                         [label |-> <<"B">>, value |-> 1] >>

\* one view of chart 2, then one of chart 1: the series lists 1 before 2
C15_Witness ==
    /\ vw.mode = "analytics"
    /\ vw.filtered = <<ChartView(<<"2">>), ChartView(<<"1">>)>>
    /\ vw.metrics["chartViews"] = << [label |-> <<"1">>, value |-> 1],
                                     [label |-> <<"2">>, value |-> 1] >>


(***************************************************************************)
(* SpecWalk: the "All Fields" rows of an expanded audit-log row            *)
(***************************************************************************)

MaxDepth == 2

hiddenKeys == {"params", "query_context"}

\* hasHidden || log.details: the row has a Show button
HasMore(log) ==
    \/ \E k \in hiddenKeys : Get(log, k).t # "null"
    \/ IsTruthy(Get(log, "details"))

\* pushRow(path, value): the paths it adds to rows; a path is the sequence
\* of the keys that the page joins with dots
pushRow(path) == IF path = <<"params">> \/ path = <<"query_context">> THEN <<>> ELSE <<path>>

\* v && typeof v === 'object' && !Array.isArray(v) && !(k === 'params' || k === 'query_context')
Descends(k, v) == v.t = "obj" /\ k \notin hiddenKeys

\* walk(obj, prefix): the rows pushed, in order
RECURSIVE walk(_, _)
walk(obj, prefix) ==
    IF obj.t # "obj" THEN pushRow(prefix)
    ELSE LET RECURSIVE each(_)
             each(i) ==
                 IF i > Len(obj.kids) THEN <<>>
                 ELSE LET k    == obj.kids[i].k
                          v    == obj.kids[i].v
                          path == Append(prefix, k)
                      IN  (IF Descends(k, v) THEN pushRow(path) \o walk(v, path)
                           ELSE pushRow(path))
                          \o each(i + 1)
         IN  each(1)

NestedKeys == {"b", "params"}

WalkLeaves == { Leaf("num", <<>>, 1), Node("arr", <<>>) }

\* values nested at most d objects deep
RECURSIVE WalkValues(_)
WalkValues(d) ==
    IF d = 0 THEN WalkLeaves
    ELSE WalkLeaves \cup { Node("obj", <<Kid(k, v)>>) : k \in NestedKeys, v \in WalkValues(d - 1) }

TopKeys == <<"a", "params", "query_context", "details">>

\* the keys of a record: some of the top-level keys, not all of them
KeyLists ==
    { SelectSeq(TopKeys, LAMBDA k : k \in S) :
        S \in (SUBSET { TopKeys[i] : i \in 1..Len(TopKeys) }) \ { { TopKeys[i] : i \in 1..Len(TopKeys) } } }

\* the audit-log records whose values are nested at most d objects deep
WalkRecords(d) ==
    UNION { { Node("obj", [i \in 1..Len(keys) |-> Kid(keys[i], vals[i])]) :
                vals \in [1..Len(keys) -> WalkValues(d)] } : keys \in KeyLists }

WalkInit ==
    /\ vw \in { [mode |-> "walk", log |-> log, expanded |-> FALSE, rows |-> <<>>] :
                  log \in WalkRecords(MaxDepth) }
    /\ pr = ProbeIdle
    /\ ld = LoadIdle
    /\ FetchIdle

\* toggle(idx) of the Show / Hide / Close button, and the rows rendered
Toggle ==
    /\ vw.mode = "walk"
    /\ HasMore(vw.log)
    /\ vw' = [vw EXCEPT !.expanded = ~vw.expanded,
                        !.rows = IF vw.expanded THEN <<>> ELSE walk(vw.log, <<>>)]
    /\ UNCHANGED <<fetchVars, pr, ld>>

SpecWalk == WalkInit /\ [][Toggle]_vars


\* the rows of the claim: every key gives a row and every object is
\* descended into, except the top-level keys params and query_context
RECURSIVE RowsOf(_, _)
RowsOf(obj, prefix) ==
    LET RECURSIVE each(_)
        each(i) ==
            IF i > Len(obj.kids) THEN <<>>
            ELSE LET k == obj.kids[i].k
                     v == obj.kids[i].v
                 IN  (IF prefix = <<>> /\ k \in {"params", "query_context"} THEN <<>>
                      ELSE IF v.t = "obj" THEN <<Append(prefix, k)>> \o RowsOf(v, Append(prefix, k))
                      ELSE <<Append(prefix, k)>>)
                     \o each(i + 1)
    IN  each(1)

\* the record {a: {b: 1}, params: {b: 1}, details: {params: {b: 1}}}
WalkExample ==
    Node("obj", <<Kid("a", Node("obj", <<Kid("b", Leaf("num", <<>>, 1))>>)),
                  Kid("params", Node("obj", <<Kid("b", Leaf("num", <<>>, 1))>>)),
                  Kid("details", Node("obj", <<Kid("params",
                                                   Node("obj", <<Kid("b", Leaf("num", <<>>, 1))>>))>>))>>)

\* C16: the rows of an expanded record are a row for every path of the
\* record, objects nested under any key descended into, except that the
\* top-level keys params and query_context give no row
C16_NestedRecursed ==
    (vw.mode = "walk" /\ vw.expanded) => vw.rows = RowsOf(vw.log, <<>>)

\* what the page does: no row for the bare paths params and query_context,
\* a row for every key outside a top-level params or query_context whose
\* ancestors are not named params or query_context, and no row below a key
\* of that name at any depth
C16_RowsStopAtHiddenKeys ==
    (vw.mode = "walk" /\ vw.expanded) =>
        /\ \A i \in 1..Len(vw.rows) :
              /\ vw.rows[i] # <<"params">> /\ vw.rows[i] # <<"query_context">>
              /\ \A j \in 1..(Len(vw.rows[i]) - 1) : vw.rows[i][j] \notin {"params", "query_context"}
        /\ { vw.rows[i] : i \in 1..Len(vw.rows) }
             = { r \in { RowsOf(vw.log, <<>>)[i] : i \in 1..Len(RowsOf(vw.log, <<>>)) } :
                   \A j \in 1..(Len(r) - 1) : r[j] \notin {"params", "query_context"} }

\* the record of the example is expanded: rows a, a.b, details and
\* details.params, and no row for the key below details.params
C16_Witness ==
    /\ vw.mode = "walk"
    /\ vw.expanded
    /\ vw.log = WalkExample
    /\ vw.rows = << <<"a">>, <<"a", "b">>, <<"details">>, <<"details", "params">> >>


\* the records that the step appended to teamMembers
Pushed(i) == i \in (Len(teamMembers) + 1)..Len(teamMembers')

\* C17: every membership record pushed carries _team_identifier_used, the
\* candidate identifier of the request that returned it, and _team_id, the
\* team's numeric id (id, else team_id) or, without one, its name (name, else
\* slug, else title), whatever the raw record held under those names; for a
\* team known by its uuid only _team_id is undefined, and team_members.json
\* is written from these records
C17_ProvenanceFields ==
    [][ /\ pc = "members" =>
            \A i \in 1..Len(teamMembers') :
                IF Pushed(i)
                THEN LET t == teams[ti]
                     IN  /\ teamMembers'[i]._team_identifier_used = uniqueIds(t)[ci]
                         /\ teamMembers'[i]._team_id
                              = (IF numericId(t).t # "undef" THEN numericId(t) ELSE nameId(t))
                ELSE teamMembers'[i] = teamMembers[i]
        /\ pc = "write" => files'["team_members.json"] = teamMembers ]_vars

\* the file was written with the record of a membership that arrived with
\* provenance fields of its own, fetched for team 7 by its name ops
C17_Witness ==
    /\ pc = "done"
    /\ \E i \in 1..Len(files["team_members.json"]) :
          LET r == files["team_members.json"][i]
          IN  /\ r._team_identifier_used = Str("ops")
              /\ r._team_id = Num(7)
              /\ r.id = MemberTagged.id

\* C17 as stated: the two provenance fields of a record name the same
\* identifier, the one used to fetch it
C17_SameIdentifier ==
    \A i \in 1..Len(teamMembers) :
        JsString(teamMembers[i]._team_id) = teamMembers[i]._team_identifier_used

\* a record fetched for a team known by its uuid only has no _team_id
C17_UuidOnlyTeam ==
    \A i \in 1..Len(teamMembers) :
        teamMembers[i]._team_identifier_used = Str("u-9") => teamMembers[i]._team_id = Undef


\* the token held: the explicit bearer token, else the exchanged one
TokenHeld == IF Truthy(env.presetBearer) THEN env.presetBearer ELSE cachedJWT

\* C18: the last resource request sent by api() carries the credential of
\* the auth state: the bearer token and no cookie when a token is held, the
\* captured cookie and no bearer token when none is held, and one of the two
\* in any case
C18_RequestCredential ==
    lastReq.sent =>
        /\ ~(Truthy(lastReq.authorization) /\ Truthy(lastReq.cookie))
        /\ Truthy(lastReq.authorization) \/ Truthy(lastReq.cookie)
        /\ Truthy(TokenHeld) => lastReq.authorization = TokenHeld /\ lastReq.cookie = Null
        /\ ~Truthy(TokenHeld) => lastReq.authorization = Null /\ lastReq.cookie = sessionCookie

\* the exchange gave a token and a cookie; the request went out with the
\* token only
C18_Witness ==
    /\ lastReq.sent
    /\ ~Truthy(env.presetBearer)
    /\ Truthy(cachedJWT)
    /\ Truthy(sessionCookie)
    /\ lastReq.authorization = cachedJWT
    /\ lastReq.cookie = Null

\* a request went out with the captured cookie, no token being held
C18_CookieRequest ==
    /\ lastReq.sent
    /\ ~Truthy(TokenHeld)
    /\ Truthy(lastReq.cookie)


\* C19: tryEndpoints requests at most 50 pages from any one candidate
C19_AtMostFiftyPages ==
    pr.mode = "run" => pr.st.page <= 50

\* what the loop guarantees: the cap is tested after the page is taken, so
\* no candidate is asked for more than PageCap + 1 pages, and a call that
\* has not returned has asked its candidate for at most PageCap pages
C19_AtMostCapPlusOne ==
    pr.mode = "run" =>
        /\ pr.st.page <= PageCap + 1
        /\ pr.st.idx <= pr.n
        /\ (~pr.st.done /\ pr.st.page > 0) => pr.st.page <= PageCap

\* a candidate that serves full pages under `result` forever was asked for
\* 51 pages, and the call returned the records of all 51
C19_Witness ==
    /\ pr.mode = "run"
    /\ pr.paginated
    /\ pr.script.tail = "full"
    /\ pr.st.done
    /\ pr.st.page = 51
    /\ Len(pr.st.result) = 51 * pr.pageSize


\* the call goes on as long as it has a request to make
SpecProbeFair == SpecProbe /\ WF_vars(ProbeStep)

\* the pagination loop ends: every call of tryEndpoints returns
C19_Terminates == (pr.mode = "run") ~> pr.st.done


(***************************************************************************)
(* SpecShape: the arrays taken from a teams or membership response         *)
(***************************************************************************)

\* an empty array under one key, then the array under another
EmptyThen(hi, lo, a) == ObjBody(<<Pair(hi, ArrV(<<>>)), Pair(lo, ArrV(a))>>)

\* the parsed bodies of a response that holds the array a
ShapeBodies(a) ==
    { BareBody(a), Under("data", a), Under("result", a), Under("payload", a),
      UnderPayloadData(a), Under("team_list", a), UnderUnknown(a) }
    \cup { EmptyThen(hi, lo, a) : hi \in {"data", "result", "payload"},
                                  lo \in {"result", "payload", "team_list", "items"} }
    \cup { NullBody, ObjBody(<<Pair("message", ScalarV)>>) }

ShapeInputs ==
    UNION { { [kind |-> "teams", body |-> b] : b \in ShapeBodies(a) } : a \in TeamLists }
    \cup UNION { { [kind |-> "members", body |-> b] : b \in ShapeBodies(a) } : a \in MemberArrays }

ShapeInit ==
    /\ vw \in { [mode |-> "shape", kind |-> in.kind, body |-> in.body, done |-> FALSE,
                 out |-> <<>>] : in \in ShapeInputs }
    /\ pr = ProbeIdle
    /\ ld = LoadIdle
    /\ FetchIdle

\* the extraction of main() from the parsed body of a 2xx response
Normalize ==
    /\ vw.mode = "shape"
    /\ ~vw.done
    /\ vw' = [vw EXCEPT !.done = TRUE,
                        !.out = IF vw.kind = "teams" THEN TeamsFrom(vw.body)
                                ELSE MemberItems(vw.body)]
    /\ UNCHANGED <<fetchVars, pr, ld>>

SpecShape == ShapeInit /\ [][Normalize]_vars

\* the wrapper keys of the claim, in priority order; payload.data is the
\* data array of an object under payload
WrapperKeys(kind) ==
    IF kind = "teams" THEN <<"data", "result", "payload.data">>
    ELSE <<"data", "result", "payload", "payload.data">>

\* the array under a wrapper key, empty when the key holds no array
ArrayUnder(json, key) ==
    IF key = "payload.data"
    THEN (IF IsArrayAtData(json, "payload") THEN Field(json, "payload").d[1] ELSE <<>>)
    ELSE (IF IsArrayAt(json, key) THEN Field(json, key).a ELSE <<>>)

\* the scan of all top-level values, used when no wrapper key qualifies
ScanOf(kind, json) ==
    IF kind = "members" THEN FirstArrayValue(json, "members")
    ELSE IF FirstArrayValue(json, "team key") # <<>> THEN FirstArrayValue(json, "team key")
    ELSE FirstArrayValue(json, "teams")

\* C20: an array body is taken as is; otherwise the array of the first
\* wrapper key, in priority order, that holds a non-empty array is taken, an
\* empty array under an earlier key hiding nothing; the scan of the
\* top-level values is used only if no wrapper key holds a non-empty array
C20_FirstNonEmptyWrapper ==
    (vw.mode = "shape" /\ vw.done) =>
        LET keys == WrapperKeys(vw.kind)
            hits == { i \in 1..Len(keys) : ArrayUnder(vw.body, keys[i]) # <<>> }
        IN  vw.out = IF vw.body.kind = "array" THEN vw.body.arr
                     ELSE IF hits # {}
                     THEN ArrayUnder(vw.body, keys[CHOOSE i \in hits : \A j \in hits : i <= j])
                     ELSE ScanOf(vw.kind, vw.body)

\* what holds: an array body is taken as is, and the claim's result is taken
\* whenever no wrapper key holds an empty array
C20_UnlessEmptyWrapper ==
    (vw.mode = "shape" /\ vw.done) =>
        LET keys == WrapperKeys(vw.kind)
            hits == { i \in 1..Len(keys) : ArrayUnder(vw.body, keys[i]) # <<>> }
        IN  /\ vw.body.kind = "array" => vw.out = vw.body.arr
            /\ (vw.body.kind # "array"
                  /\ \A k \in {"data", "result", "payload"} :
                        ~(IsArrayAt(vw.body, k) /\ Field(vw.body, k).a = <<>>))
                 => vw.out = IF hits # {}
                              THEN ArrayUnder(vw.body, keys[CHOOSE i \in hits : \A j \in hits : i <= j])
                              ELSE ScanOf(vw.kind, vw.body)

\* a teams response {data: [], result: [team]}: no team is taken
C20_Witness ==
    /\ vw.mode = "shape"
    /\ vw.done
    /\ vw.kind = "teams"
    /\ vw.body = EmptyThen("data", "result", <<TeamOps>>)
    /\ vw.out = <<>>

\* a membership response {data: [], result: [member]} whose record has
\* neither user_id nor email at its top level: no member is taken
C20_MembersHidden ==
    /\ vw.mode = "shape"
    /\ vw.done
    /\ vw.kind = "members"
    /\ vw.body = EmptyThen("data", "result", <<MemberNested>>)
    /\ vw.out = <<>>


\* the run is no longer asking for the sub-resources of team ti
LeftTeam == ~(pc' \in {"members", "audit"} /\ ti' = ti)

\* C21: the membership requests of a team go through its deduplicated
\* identifiers (name, numeric id, uuid), and for each identifier through the
\* patterns; after a 2xx response that was processed without error no
\* further membership request is made for the team; the audit requests go
\* through the identifiers in the same order and the first one whose logs
\* are taken is the last one for the team
C21_FanOutOrder ==
    [][ /\ pc = "members" =>
            LET ids == uniqueIds(teams[ti])
            IN  IF last'.ok /\ nulls' = nulls
                THEN pc' = "audit" /\ ti' = ti /\ ci' = 1
                ELSE IF pi < NumPatterns
                THEN pc' = "members" /\ ti' = ti /\ ci' = ci /\ pi' = pi + 1
                ELSE IF ci < Len(ids)
                THEN pc' = "members" /\ ti' = ti /\ ci' = ci + 1 /\ pi' = 1
                ELSE pc' = "audit" /\ ti' = ti /\ ci' = 1
        /\ pc = "audit" =>
            IF auditLogsAll' # auditLogsAll THEN LeftTeam
            ELSE IF ci < Len(uniqueIds(teams[ti]))
            THEN pc' = "audit" /\ ti' = ti /\ ci' = ci + 1
            ELSE LeftTeam
        /\ (pc' = "members" /\ ~(pc = "members" /\ ti' = ti)) => (ci' = 1 /\ pi' = 1) ]_vars

\* every pattern failed for the name of team ops, the first pattern for its
\* numeric id gave its members, and the run went on to its audit logs
C21_Witness ==
    /\ pc = "audit"
    /\ ci = 1
    /\ teams = <<TeamOps>>
    /\ last.stage = "members"
    /\ last.cand = NumPatterns + 1
    /\ last.ok
    /\ ~last.failed
    /\ \E i \in 1..Len(teamMembers) : teamMembers[i]._team_identifier_used = Str("7")

\* each team contributes audit records from at most one identifier
C21_AuditFromOneIdentifier ==
    \A i, j \in 1..Len(auditLogsAll) :
        auditLogsAll[i]._team_id = auditLogsAll[j]._team_id
            => auditLogsAll[i]._team_identifier_used = auditLogsAll[j]._team_identifier_used


\* the sum of the counts of a series
RECURSIVE SumOf(_)
SumOf(m) == IF m = <<>> THEN 0 ELSE Head(m).value + SumOf(Tail(m))

\* the actor of a record: user if it is a string, else user.email, else
\* user_email, else Unknown
ActorLabel(l) ==
    LET user == Get(l, "user")
    IN  IF user.t = "str" THEN user.s
        ELSE IF IsTruthy(Get(user, "email")) THEN StringOf(Get(user, "email"))
        ELSE IF IsTruthy(Get(l, "user_email")) THEN StringOf(Get(l, "user_email"))
        ELSE <<"Unknown">>

\* C22: the counts of activeUsers sum to the number of records shown
C22_ActiveUsersSum ==
    vw.mode = "analytics" => SumOf(vw.metrics["activeUsers"]) = Len(vw.filtered)

\* what holds: every record shown whose actor is not named __proto__ is
\* counted once under its actor, whatever its action
C22_CountsActorsButProto ==
    vw.mode = "analytics" =>
        LET m      == vw.metrics["activeUsers"]
            actors == { ActorLabel(vw.filtered[i]) : i \in 1..Len(vw.filtered) } \ { <<"__proto__">> }
        IN  /\ { m[i].label : i \in 1..Len(m) } = actors
            /\ \A i \in 1..Len(m) :
                  m[i].value = Cardinality({ j \in 1..Len(vw.filtered) :
                                               ActorLabel(vw.filtered[j]) = m[i].label })
            /\ \A i, j \in 1..Len(m) : m[i].label = m[j].label => i = j

\* two records are shown, one of the user __proto__: activeUsers counts one
C22_Witness ==
    /\ vw.mode = "analytics"
    /\ Len(vw.filtered) = 2
    /\ ActorLabel(vw.filtered[1]) = <<"__proto__">>
    /\ ActorLabel(vw.filtered[2]) = <<"Unknown">>
    /\ vw.metrics["activeUsers"] = << [label |-> <<"Unknown">>, value |-> 1] >>


(***************************************************************************)
(* SpecRefresh: a page of the viewer, the Refresh button and its loads     *)
(***************************************************************************)

MaxRefresh == 3

\* the loads a page can have started: one on mount, one for each refresh
Loads == 1..(MaxRefresh + 1)

\* vw.started:  the loads started so far, numbered in order
\* vw.inflight: the loads whose promise has not settled
\* vw.outcome:  what became of each load
\* vw.data:     the load whose result the page shows, 0 before any
\* vw.error:    the load whose failure the page shows, 0 for null
\* the page after its first render and effect
RefreshInit ==
    /\ vw = [mode |-> "page", refreshKey |-> 0, started |-> 1, inflight |-> {1},
             outcome |-> [k \in Loads |-> IF k = 1 THEN "pending" ELSE "none"],
             loading |-> TRUE, error |-> 0, data |-> 0]
    /\ pr = ProbeIdle
    /\ ld = LoadIdle
    /\ FetchIdle

\* setRefreshKey(k => k + 1) and the effect it triggers:
\* setLoading(true); setError(null); and a new load
Refresh ==
    /\ vw.mode = "page"
    /\ vw.refreshKey < MaxRefresh
    /\ vw' = [vw EXCEPT !.refreshKey = vw.refreshKey + 1,
                        !.started = vw.started + 1,
                        !.inflight = vw.inflight \cup {vw.started + 1},
                        !.outcome[vw.started + 1] = "pending",
                        !.loading = TRUE,
                        !.error = 0]
    /\ UNCHANGED <<fetchVars, pr, ld>>

\* variant: the result of a load is shown only if no later load was started
ShownAfterIfNewest(k) == IF k = vw.started THEN k ELSE vw.data

\* .then: setTeams, setMembers (setLogs on the other pages): the page shows
\* the result of load k once it has resolved
ShownAfter(k) == k

\* the promise of load k resolves: .then, then .finally
Resolve ==
    /\ vw.mode = "page"
    /\ \E k \in vw.inflight :
          vw' = [vw EXCEPT !.inflight = vw.inflight \ {k},
                           !.outcome[k] = "ok",
                           !.data = ShownAfter(k),
                           !.loading = FALSE]
    /\ UNCHANGED <<fetchVars, pr, ld>>

\* the promise of load k rejects: .catch, then .finally
Reject ==
    /\ vw.mode = "page"
    /\ \E k \in vw.inflight :
          vw' = [vw EXCEPT !.inflight = vw.inflight \ {k},
                           !.outcome[k] = "failed",
                           !.error = k,
                           !.loading = FALSE]
    /\ UNCHANGED <<fetchVars, pr, ld>>

RefreshNext == Refresh \/ Resolve \/ Reject

SpecRefresh == RefreshInit /\ [][RefreshNext]_vars

\* C23: the loading flag is true as long as a load of the page is in flight
C23_LoadingWhileInFlight ==
    vw.mode = "page" => (vw.inflight # {} => vw.loading)

\* what holds: every refresh starts a load, and while the flag is true the
\* load started last is in flight; the flag falls when any load settles
C23_LoadingMeansNewestInFlight ==
    vw.mode = "page" =>
        /\ vw.started = vw.refreshKey + 1
        /\ vw.loading => vw.started \in vw.inflight

\* a second load was started before the first settled; the first has
\* settled, the second is in flight and the page does not show Loading
C23_Witness ==
    /\ vw.mode = "page"
    /\ vw.started = 2
    /\ vw.inflight = {2}
    /\ ~vw.loading

\* C24: loads carry no generation: a load that resolves puts its result on
\* the page whatever loads were started after it, so that an earlier load
\* that resolves last leaves its result displayed
C24_StaleLoadOverwrites ==
    [][ vw.mode = "page" =>
          \A k \in vw.inflight :
              (k \notin vw'.inflight /\ vw'.outcome[k] = "ok") => vw'.data = k ]_vars

\* two loads, both resolved, the earlier one last: its result is displayed
C24_Witness ==
    /\ vw.mode = "page"
    /\ vw.started = 2
    /\ vw.inflight = {}
    /\ vw.outcome[1] = "ok"
    /\ vw.outcome[2] = "ok"
    /\ vw.data = 1

\* C25: once every load has settled, an error is displayed if and only if
\* the load started last failed
C25_ErrorIffLatestFailed ==
    (vw.mode = "page" /\ vw.inflight = {}) =>
        (vw.error # 0 <=> vw.outcome[vw.started] = "failed")

\* what holds: once every load has settled, the error displayed is that of
\* the load that failed last since the last refresh, if there is one
C25_ErrorOfSomeFailedLoad ==
    (vw.mode = "page" /\ vw.inflight = {}) =>
        /\ vw.error # 0 => vw.outcome[vw.error] = "failed"
        /\ vw.outcome[vw.started] = "failed" => vw.error # 0

\* the second load succeeded, the first failed after it: the error of the
\* first is displayed and the table is hidden
C25_Witness ==
    /\ vw.mode = "page"
    /\ vw.started = 2
    /\ vw.inflight = {}
    /\ vw.outcome[2] = "ok"
    /\ vw.outcome[1] = "failed"
    /\ vw.data = 2
    /\ vw.error = 1
    /\ ~vw.loading


\* the membership records held for team k: those fetched by one of its identifiers
MembersOf(k) ==
    { i \in 1..Len(teamMembers) :
        \E c \in 1..Len(uniqueIds(teams[k])) :
            teamMembers[i]._team_identifier_used = uniqueIds(teams[k])[c] }

\* the probing of a team's memberships has just ended with candidates left
ProbingEndedEarly == last.stage = "members" /\ pc = "audit" /\ last.more

\* C26: a membership answer with an empty or unrecognized body does not end
\* the probing of a team: while (identifier, pattern) combinations remain,
\* one of which may hold the members, the probing ends only with members of
\* the team collected for team_members.json
C26_EmptyAnswerKeepsProbing ==
    ProbingEndedEarly => MembersOf(last.team) # {}

\* what holds: with combinations left, the probing ends only on a 2xx
\* answer that parses as JSON, with or without members in it
C26_EndsOnAnyParsedAnswer ==
    ProbingEndedEarly => last.ok

\* the first combination of team ops (id 7) answered 2xx without members:
\* the 17 others are not requested and no member of the team is held
C26_Witness ==
    /\ ProbingEndedEarly
    /\ teams = <<TeamOps>>
    /\ last.cand = 1
    /\ last.ok
    /\ last.failed
    /\ teamMembers = <<>>


\* the raw memberships a server may serve
RawMembers ==
    UNION { { a[j] : j \in 1..Len(a) } : a \in server.memberArrays } \ {MemberNull}

\* the top-level fields of a membership record, the two provenance fields
\* that the fetcher sets aside
MemberFields == DOMAIN NoMember \ {"nul", "_team_id", "_team_identifier_used"}

\* the record r holds every field that the raw membership m defines, with
\* the value it has in m
KeepsFields(r, m, fields) ==
    \A f \in fields :
        IF f = "user" THEN m.user.present => r.user = m.user
        ELSE m[f] # Undef => r[f] = m[f]

\* C27: flattening only adds: every record collected for team_members.json
\* holds all the top-level fields of the raw membership it was made from,
\* with their values
C27_FlatteningOnlyAdds ==
    \A i \in 1..Len(teamMembers) :
        \E m \in RawMembers : KeepsFields(teamMembers[i], m, MemberFields)

\* what holds: the fields that the flattening does not write (id, user,
\* team_role) are those of the raw membership
C27_UnwrittenFieldsKept ==
    \A i \in 1..Len(teamMembers) :
        \E m \in RawMembers :
            /\ KeepsFields(teamMembers[i], m, {"id", "user", "team_role"})
            /\ teamMembers[i].email = m.user.email

\* team_members.json holds the record of the membership served with email
\* b@x at the top level and no user object: the record has no email
C27_Witness ==
    /\ pc = "done"
    /\ \E i \in 1..Len(files["team_members.json"]) :
          LET r == files["team_members.json"][i]
          IN  /\ r.user_id = MemberFlat.user_id
              /\ r.id = MemberFlat.id
              /\ ~r.user.present
              /\ MemberFlat.email = Str("b@x")
              /\ r.email = Undef


\* the count held for key by the Map that memberCount builds from the
\* members loaded: records without _team_id are skipped, and a key that the
\* Map does not hold reads as 0 (memberCount.get(id) || 0)
memberCount(members, key) ==
    IF key = Undef THEN 0
    ELSE Cardinality({ i \in 1..Len(members) : members[i]._team_id = key })

\* the Members cell of the row of team t: id = t.id || t.uuid
TeamsTableCount(t, members) == memberCount(members, JsOr(t.id, t.uuid))

\* the records of team_members.json produced for the k-th team of
\* teams.json: those fetched by one of its identifiers
ProducedFor(k) ==
    { i \in 1..Len(files["team_members.json"]) :
        \E c \in 1..Len(uniqueIds(files["teams.json"][k])) :
            files["team_members.json"][i]._team_identifier_used
                = uniqueIds(files["teams.json"][k])[c] }

\* C28: for every team of the files written, the member count of the Teams
\* table is the number of records of team_members.json produced for it,
\* whichever identifier fields the team carries
C28_TableCountIsProducedCount ==
    pc = "done" =>
        \A k \in 1..Len(files["teams.json"]) :
            TeamsTableCount(files["teams.json"][k], files["team_members.json"])
                = Cardinality(ProducedFor(k))

\* what holds: the two agree for the teams that carry a truthy id
C28_AgreeForTeamsWithId ==
    pc = "done" =>
        \A k \in 1..Len(files["teams.json"]) :
            JsTruthy(files["teams.json"][k].id) =>
                TeamsTableCount(files["teams.json"][k], files["team_members.json"])
                    = Cardinality(ProducedFor(k))

\* the files hold a team known by team_id 7 only and two records produced
\* for it, tagged _team_id 7; its row shows 0 members
C28_Witness ==
    /\ pc = "done"
    /\ Len(files["teams.json"]) = 3
    /\ files["teams.json"][2] = TeamSeven
    /\ Cardinality(ProducedFor(2)) = 2
    /\ \A i \in ProducedFor(2) : files["team_members.json"][i]._team_id = Num(7)
    /\ TeamsTableCount(TeamSeven, files["team_members.json"]) = 0

====
